---- MODULE Spec2Model ----
(***************************************************************************)
(* Model of the commit-message pipeline of ai-commit-tool: sanitization,   *)
(* commit-type detection, subject/body formatting, summarization of        *)
(* oversized subjects and validation.  Strings are TLA+ strings; every     *)
(* regular expression of the source is an operator that scans the string   *)
(* the way the expression matches it.                                      *)
(***************************************************************************)
EXTENDS Integers, Sequences, FiniteSets, TLC

(***************************************************************************)
(* Program constants (src/unnamed/part_004, src/src/templates.ts).         *)
(***************************************************************************)
SUBJECT_MAX_LENGTH == 72

CONVENTIONAL_TYPES ==
  <<"feat", "fix", "docs", "style", "refactor", "test", "chore", "perf", "ci", "build">>

\* Object.entries(TYPE_DETECTION_MAP): the keys in insertion order.
TYPE_DETECTION_ORDER ==
  <<"feat", "fix", "docs", "refactor", "test", "style", "perf", "build", "ci">>

TYPE_DETECTION_MAP ==
  [feat     |-> <<"add", "implement", "create", "introduce">>,
   fix      |-> <<"fix", "resolve", "correct", "repair", "patch">>,
   docs     |-> <<"doc", "readme", "comment", "documentation">>,
   refactor |-> <<"refactor", "restructure", "reorganize", "rewrite">>,
   test     |-> <<"test", "spec", "testing">>,
   style    |-> <<"style", "format", "lint", "prettier">>,
   perf     |-> <<"performance", "optimize", "speed", "faster">>,
   build    |-> <<"build", "compile", "bundle", "webpack">>,
   ci       |-> <<"ci", "pipeline", "workflow", "github", "actions">>]

\* The type alternatives of the prefix-stripping expression
\* /^(feat|fix|...|build|revert)(\([^)]*\))?\s*:\s*/i.
PREFIX_TYPES ==
  <<"feat", "fix", "docs", "style", "refactor", "test", "chore", "perf", "ci", "build", "revert">>

(***************************************************************************)
(* Characters and the string primitives of the runtime.                    *)
(***************************************************************************)
UpperChars == "ABCDEFGHIJKLMNOPQRSTUVWXYZ"
LowerChars == "abcdefghijklmnopqrstuvwxyz"
DigitChars == "0123456789"

\* const v = value; Body(v): value is computed once and Body sees the result.
Bind(value, Body(_)) == CHOOSE r \in {Body(v) : v \in {value}} : TRUE

\* s.charAt(i - 1): the empty string outside the string.
CharAt(s, i) == IF i >= 1 /\ i <= Len(s) THEN SubSeq(s, i, i) ELSE ""

CharsOf(s) == {CharAt(s, i) : i \in 1..Len(s)}

UpperSet == CharsOf(UpperChars)
LowerSet == CharsOf(LowerChars)
DigitSet == CharsOf(DigitChars)

\* \s of the regular expressions and the characters trim() strips.
Whitespace == {" ", "\t", "\n", "\r"}

\* "." of the regular expressions: any character but a line terminator.
LineTerminators == {"\n", "\r"}

LowerOf == [c \in UpperSet |->
              CharAt(LowerChars, CHOOSE i \in 1..Len(UpperChars) : CharAt(UpperChars, i) = c)]
UpperOf == [c \in LowerSet |->
              CharAt(UpperChars, CHOOSE i \in 1..Len(LowerChars) : CharAt(LowerChars, i) = c)]

toLowerChar(c) == IF c \in UpperSet THEN LowerOf[c] ELSE c
toUpperChar(c) == IF c \in LowerSet THEN UpperOf[c] ELSE c

RECURSIVE toLowerCase(_)
toLowerCase(s) ==
  IF Len(s) <= 1 THEN toLowerChar(s)
  ELSE toLowerCase(SubSeq(s, 1, Len(s) \div 2))
         \o toLowerCase(SubSeq(s, Len(s) \div 2 + 1, Len(s)))

Drop(s, n) == SubSeq(s, n + 1, Len(s))
Take(s, n) == SubSeq(s, 1, n)

startsWith(s, k) == Len(s) >= Len(k) /\ Take(s, Len(k)) = k
endsWith(s, k) == Len(s) >= Len(k) /\ Drop(s, Len(s) - Len(k)) = k
includes(s, k) == \E i \in 1..(Len(s) - Len(k) + 1) : SubSeq(s, i, i + Len(k) - 1) = k

\* Index of the first occurrence of k in s at or after position from; 0 when none.
IndexOfFrom(s, k, from) ==
  LET hits == {i \in from..(Len(s) - Len(k) + 1) : SubSeq(s, i, i + Len(k) - 1) = k}
  IN  IF hits = {} THEN 0 ELSE CHOOSE i \in hits : \A j \in hits : i <= j

\* Number of leading whitespace characters of s.
LeadingSpaces(s) ==
  LET stops == {i \in 1..Len(s) : CharAt(s, i) \notin Whitespace}
  IN  IF stops = {} THEN Len(s) ELSE (CHOOSE i \in stops : \A j \in stops : i <= j) - 1

\* Number of whitespace characters of s from position from on (a greedy \s*).
SpacesFrom(s, from) == LeadingSpaces(Drop(s, from - 1))

\* Position i of s holds a character that "." matches.
AnyChar(s, i) == i >= 1 /\ i <= Len(s) /\ CharAt(s, i) \notin LineTerminators

trim(s) ==
  LET keep == {i \in 1..Len(s) : CharAt(s, i) \notin Whitespace}
  IN  IF keep = {} THEN ""
      ELSE SubSeq(s, CHOOSE i \in keep : \A j \in keep : i <= j,
                     CHOOSE i \in keep : \A j \in keep : i >= j)

\* s.split('\n'): the pieces between line breaks, empty pieces kept.
RECURSIVE splitLines(_)
splitLines(s) ==
  Bind(IndexOfFrom(s, "\n", 1),
       LAMBDA i : IF i = 0 THEN <<s>>
                  ELSE <<Take(s, i - 1)>> \o Bind(Drop(s, i), LAMBDA rest : splitLines(rest)))

\* s.split(/\s+/): the pieces between maximal runs of whitespace.
RECURSIVE splitWords(_)
splitWords(s) ==
  LET ws == {i \in 1..Len(s) : CharAt(s, i) \in Whitespace}
  IN  IF ws = {} THEN <<s>>
      ELSE LET i == CHOOSE x \in ws : \A y \in ws : x <= y
               rest == Drop(s, i)
           IN  <<Take(s, i - 1)>> \o splitWords(Drop(rest, LeadingSpaces(rest)))

\* lines.join(sep)
RECURSIVE join(_, _)
join(seq, sep) ==
  IF seq = <<>> THEN ""
  ELSE IF Len(seq) = 1 THEN seq[1]
  ELSE seq[1] \o sep \o join(Tail(seq), sep)

MapSeq(seq, Op(_)) == [i \in 1..Len(seq) |-> Op(seq[i])]

\* array.includes(x)
Contains(seq, x) == \E i \in 1..Len(seq) : seq[i] = x

\* array.find(test) || dflt: the first element passing test, dflt when there is
\* none or when it is the empty string.
FirstOr(seq, Test(_), dflt) ==
  LET hits == {i \in 1..Len(seq) : Test(seq[i])}
  IN  IF hits = {} THEN dflt
      ELSE LET v == seq[CHOOSE i \in hits : \A j \in hits : i <= j]
           IN  IF v = "" THEN dflt ELSE v

(***************************************************************************)
(* MessageSanitizer: src/unnamed/part_002 (markdown only) and              *)
(* src/src/templates/MessageSanitizer.ts (JSON artifacts as well).         *)
(***************************************************************************)
\* The grave accent (U+0060) cannot be written in a string literal of this
\* language; the model writes it as "~", a character no modelled input holds
\* otherwise.
BACKTICK == "~"
FENCE == BACKTICK \o BACKTICK \o BACKTICK
QUOTE == "\""
BACKSLASH == "\\"

\* One global replace of  open (content) close  where the content is matched
\* lazily or cannot hold the closing delimiter: the code-block, inline-code,
\* bold, italic, brace, bracket and quote expressions of
\* removeMarkdownFormatting.  minLen is the least content length, multiline
\* tells whether the content may hold line terminators, keep whether the
\* content replaces the match ('$1').
RECURSIVE ReplaceDelimited(_, _, _, _, _, _)
ReplaceDelimited(s, open, close, minLen, multiline, keep) ==
  Bind(IndexOfFrom(s, open, 1), LAMBDA i :
  IF i = 0 THEN s
  ELSE
  Bind(IndexOfFrom(s, close, i + Len(open)), LAMBDA j :
  IF j = 0 THEN s
  ELSE
  Bind(SubSeq(s, i + Len(open), j - 1), LAMBDA content :
  IF /\ Len(content) >= minLen
     /\ multiline \/ \A k \in 1..Len(content) : CharAt(content, k) \notin LineTerminators
  THEN Take(s, i - 1) \o (IF keep THEN content ELSE "")
         \o ReplaceDelimited(Drop(s, j + Len(close) - 1), open, close, minLen, multiline, keep)
  ELSE Take(s, i) \o ReplaceDelimited(Drop(s, i), open, close, minLen, multiline, keep))))

\* s.replace(/from/g, to) for a literal from.
RECURSIVE ReplaceAll(_, _, _)
ReplaceAll(s, from, to) ==
  Bind(IndexOfFrom(s, from, 1), LAMBDA i :
  IF i = 0 THEN s
  ELSE Take(s, i - 1) \o to \o ReplaceAll(Drop(s, i + Len(from) - 1), from, to))

\* Position of the closing brace of the match of the JSON-object expression
\* { "key" : "value" ... } that starts at position i of s, 0 when none.
JsonObjectEnd(s, i) ==
  Bind(IndexOfFrom(s, QUOTE, i + 2), LAMBDA keyEnd :
  IF keyEnd = 0 \/ CharAt(s, keyEnd + 1) # ":" THEN 0
  ELSE
  Bind(keyEnd + 2 + SpacesFrom(s, keyEnd + 2), LAMBDA valueStart :
  IF CharAt(s, valueStart) # QUOTE THEN 0
  ELSE
  Bind(IndexOfFrom(s, QUOTE, valueStart + 1), LAMBDA valueEnd :
  IF valueEnd = 0 THEN 0 ELSE IndexOfFrom(s, "}", valueEnd + 1))))

RECURSIVE RemoveJsonObjects(_)
RemoveJsonObjects(s) ==
  Bind(IndexOfFrom(s, "{" \o QUOTE, 1), LAMBDA i :
  IF i = 0 THEN s
  ELSE
  Bind(JsonObjectEnd(s, i), LAMBDA e :
  IF e = 0 THEN Take(s, i) \o RemoveJsonObjects(Drop(s, i))
  ELSE Take(s, i - 1) \o RemoveJsonObjects(Drop(s, e))))

\* s.replace(/first.*?then.*?(?=\n|$)/g, ''): from an occurrence of first that
\* has then after it on its line, to the end of that line.
RECURSIVE RemoveToEndOfLine(_, _, _)
RemoveToEndOfLine(s, first, then) ==
  Bind(IndexOfFrom(s, first, 1), LAMBDA i :
  IF i = 0 THEN s
  ELSE
  Bind({k \in (i + Len(first))..Len(s) : CharAt(s, k) \in LineTerminators}, LAMBDA stops :
  Bind(IF stops = {} THEN Len(s) + 1 ELSE CHOOSE k \in stops : \A m \in stops : k <= m,
       LAMBDA e :
  IF /\ includes(SubSeq(s, i + Len(first), e - 1), then)
     /\ e = Len(s) + 1 \/ CharAt(s, e) = "\n"
  THEN Take(s, i - 1) \o RemoveToEndOfLine(Drop(s, e - 1), first, then)
  ELSE Take(s, i) \o RemoveToEndOfLine(Drop(s, i), first, then))))

cleanJSONArtifacts(text) ==
  Bind(RemoveJsonObjects(text), LAMBDA a :
  Bind(RemoveToEndOfLine(a, "reasoning_details", ""), LAMBDA b :
  Bind(RemoveToEndOfLine(b, "format", "openai-responses"), LAMBDA c :
  Bind(RemoveToEndOfLine(c, "usage", "total_tokens"), LAMBDA d :
  Bind(ReplaceAll(d, BACKSLASH \o QUOTE, QUOTE), LAMBDA e :
  trim(ReplaceAll(e, BACKSLASH \o "n", "\n")))))))

\* part_002: code blocks, inline code, bold, italic.
removeMarkdownFormatting(text) ==
  Bind(ReplaceDelimited(text, FENCE, FENCE, 0, TRUE, FALSE), LAMBDA noBlocks :
  Bind(ReplaceDelimited(noBlocks, BACKTICK, BACKTICK, 1, TRUE, TRUE), LAMBDA noInline :
  Bind(ReplaceDelimited(noInline, "**", "**", 0, FALSE, TRUE), LAMBDA noBold :
  ReplaceDelimited(noBold, "*", "*", 0, FALSE, TRUE))))

\* MessageSanitizer.ts: the same, then JSON-like structures, array-like
\* structures and quotes.
removeMarkdownAndJson(text) ==
  Bind(removeMarkdownFormatting(text), LAMBDA noMarkdown :
  Bind(ReplaceDelimited(noMarkdown, "{", "}", 0, TRUE, FALSE), LAMBDA noBraces :
  Bind(ReplaceDelimited(noBraces, "[", "]", 0, TRUE, FALSE), LAMBDA noBrackets :
  ReplaceDelimited(noBrackets, QUOTE, QUOTE, 0, TRUE, TRUE))))

\* A raw message is a record [present, text]: present = FALSE is an absent
\* (undefined / null) argument.  The result is [ok, value, error].
InvalidInputError == "Invalid input: message must be a non-empty string"
EmptyMessageError == "Generated message is empty"

Throw(e) == [ok |-> FALSE, value |-> "", error |-> e]
Return(v) == [ok |-> TRUE, value |-> v, error |-> ""]

\* sanitize of src/unnamed/part_002 (and sanitizeInput of templates.ts)
\* A sanitize that trims before it tests for emptiness, so that a message of
\* whitespace only is refused like the empty string.
sanitize_TrimFirst(message) ==
  IF ~message.present \/ trim(message.text) = ""
  THEN Throw(InvalidInputError)
  ELSE Return(removeMarkdownFormatting(trim(message.text)))

sanitize(message) ==
  IF ~message.present \/ message.text = ""
  THEN Throw(InvalidInputError)
  ELSE Bind(trim(message.text), LAMBDA sanitized :
       Return(removeMarkdownFormatting(sanitized)))

\* sanitize of src/src/templates/MessageSanitizer.ts
sanitizeJson(message) ==
  IF ~message.present \/ message.text = ""
  THEN Throw(InvalidInputError)
  ELSE Bind(cleanJSONArtifacts(trim(message.text)), LAMBDA sanitized :
       Return(removeMarkdownAndJson(sanitized)))

Sanitizers == {"markdown", "json"}

sanitizeWith(which, message) ==
  IF which = "json" THEN sanitizeJson(message) ELSE sanitize(message)

NonEmpty(line) == Len(line) > 0

\* A parseLines that trims the lines but keeps the empty ones.
parseLines_KeepEmpty(message) == MapSeq(splitLines(message), trim)

parseLines(message) ==
  SelectSeq(MapSeq(splitLines(message), trim), NonEmpty)

(***************************************************************************)
(* The regular expressions of the formatters and validators.               *)
(***************************************************************************)
\* CONVENTIONAL_REGEX.test(s):  ^(feat|...|build)(\(.+\))?: .+
\* p is the end of the type, j the closing parenthesis of a scope.
ColonSpaceThenChar(s, p) ==
  CharAt(s, p + 1) = ":" /\ CharAt(s, p + 2) = " " /\ AnyChar(s, p + 3)

CONVENTIONAL_REGEX(s) ==
  \E t \in 1..Len(CONVENTIONAL_TYPES) :
    LET p == Len(CONVENTIONAL_TYPES[t])
    IN  /\ startsWith(s, CONVENTIONAL_TYPES[t])
        /\ \/ ColonSpaceThenChar(s, p)
           \/ /\ CharAt(s, p + 1) = "("
              /\ \E j \in (p + 3)..Len(s) :
                   /\ CharAt(s, j) = ")"
                   /\ \A k \in (p + 2)..(j - 1) : AnyChar(s, k)
                   /\ ColonSpaceThenChar(s, j)

\* Length of the match of /^(feat|...|build|revert)(\([^)]*\))?\s*:\s*/i at the
\* start of s, 0 when it does not match.
TypePrefixLength(s) ==
  LET lower == toLowerCase(s)
      ts == {t \in 1..Len(PREFIX_TYPES) : startsWith(lower, PREFIX_TYPES[t])}
  IN  IF ts = {} THEN 0
      ELSE LET p == Len(PREFIX_TYPES[CHOOSE t \in ts : TRUE])
               close == IF CharAt(s, p + 1) = "(" THEN IndexOfFrom(s, ")", p + 2) ELSE 0
               q == IF close = 0 THEN p ELSE close
               colon == q + SpacesFrom(s, q + 1) + 1
           IN  IF CharAt(s, colon) = ":"
               THEN colon + SpacesFrom(s, colon + 1)
               ELSE 0

\* Length of the match of new RegExp(`^(${keywords.join('|')})\\s+`, 'i') at the
\* start of s, 0 when it does not match.
KeywordPrefixLength(s, keywords) ==
  LET lower == toLowerCase(s)
      ks == {k \in 1..Len(keywords) :
               /\ startsWith(lower, keywords[k])
               /\ CharAt(s, Len(keywords[k]) + 1) \in Whitespace}
  IN  IF ks = {} THEN 0
      ELSE LET k == CHOOSE a \in ks : \A b \in ks : a <= b
           IN  Len(keywords[k]) + SpacesFrom(s, Len(keywords[k]) + 1)

\* Length of the match of /^\d+\.\s*/ at the start of s, 0 when none.
NumberedPrefixLength(s) ==
  LET nonDigits == {i \in 1..Len(s) : CharAt(s, i) \notin DigitSet}
      d == IF nonDigits = {} THEN Len(s)
           ELSE (CHOOSE i \in nonDigits : \A j \in nonDigits : i <= j) - 1
  IN  IF d >= 1 /\ CharAt(s, d + 1) = "."
      THEN d + 1 + SpacesFrom(s, d + 2)
      ELSE 0

\* The character class of the bullet expression /^[...*+]\s*/ as the source
\* file holds it.
BulletClass == {"â", "€", "¢", "*", "+"}

(***************************************************************************)
(* BaseFormatter helpers (src/src/templates/index.ts).                     *)
(***************************************************************************)
removeTrailingPeriod(text) ==
  IF endsWith(text, ".") THEN Take(text, Len(text) - 1) ELSE text

capitalizeFirst(text) ==
  IF text = "" THEN "" ELSE toUpperChar(Head(text)) \o Tail(text)

lowercaseFirst(text) ==
  IF text = "" THEN "" ELSE toLowerChar(Head(text)) \o Tail(text)

\* Both formatters: bullet markers become "- ".
normalizeBullets(line) ==
  LET a == IF line # "" /\ Head(line) \in BulletClass
           THEN "- " \o Drop(line, 1 + SpacesFrom(line, 2))
           ELSE line
  IN  IF NumberedPrefixLength(a) > 0
      THEN "- " \o Drop(a, NumberedPrefixLength(a))
      ELSE a

(***************************************************************************)
(* ConventionalFormatter (src/src/templates/index.ts).                     *)
(***************************************************************************)
KeywordHit(lowerSubject, type) ==
  \E k \in 1..Len(TYPE_DETECTION_MAP[type]) :
     includes(lowerSubject, TYPE_DETECTION_MAP[type][k])

RECURSIVE detectFrom(_, _)
detectFrom(lowerSubject, i) ==
  IF i > Len(TYPE_DETECTION_ORDER) THEN "feat"
  ELSE IF KeywordHit(lowerSubject, TYPE_DETECTION_ORDER[i]) THEN TYPE_DETECTION_ORDER[i]
  ELSE detectFrom(lowerSubject, i + 1)

\* A detectCommitType that searches the subject as written, without
\* lower-casing it.
detectCommitType_CaseSensitive(subject) == detectFrom(subject, 1)

detectCommitType(subject) == detectFrom(toLowerCase(subject), 1)

\* A removeTypeFromSubject that strips a leading keyword whatever follows it.
removeTypeFromSubject_AnyKeyword(subject, detectedType) ==
  LET cleaned == Drop(subject, TypePrefixLength(subject))
      keywords == IF detectedType \in DOMAIN TYPE_DETECTION_MAP
                  THEN TYPE_DETECTION_MAP[detectedType] ELSE <<>>
      hits == {k \in 1..Len(keywords) : startsWith(toLowerCase(cleaned), keywords[k])}
  IN  IF hits = {} THEN cleaned
      ELSE Drop(cleaned, Len(keywords[CHOOSE k \in hits : \A j \in hits : k <= j]))

removeTypeFromSubject(subject, detectedType) ==
  LET cleaned == Drop(subject, TypePrefixLength(subject))
      keywords == IF detectedType \in DOMAIN TYPE_DETECTION_MAP
                  THEN TYPE_DETECTION_MAP[detectedType] ELSE <<>>
  IN  Drop(cleaned, KeywordPrefixLength(cleaned, keywords))

ensureConventionalFormat(subject) ==
  LET detectedType == detectCommitType(subject)
      cleanedSubject == removeTypeFromSubject(subject, detectedType)
      formattedSubject ==
        lowercaseFirst(IF cleanedSubject = "" THEN "update code" ELSE cleanedSubject)
  IN  detectedType \o ": " \o formattedSubject

\* A formatSubject without the early return for a subject that is already
\* conventional.
Conventional_formatSubject_AlwaysReformat(subject0) ==
  ensureConventionalFormat(removeTrailingPeriod(subject0))

Conventional_formatSubject(subject0) ==
  LET subject == removeTrailingPeriod(subject0)
  IN  IF CONVENTIONAL_REGEX(subject) THEN subject
      ELSE ensureConventionalFormat(subject)

technicalTerms ==
  <<"git", "commit", "body", "subject", "template", "format", "validation", "config",
    "api", "service", "utils">>
actionWords ==
  <<"add", "remove", "update", "fix", "improve", "refactor", "implement", "create",
    "delete", "enhance">>
contextStopWords ==
  <<"from", "with", "that", "this", "when", "where", "they", "have", "been">>

\* An extractSummary without the two special-cased phrasings.
extractSummary_Plain(cleanedMessage) ==
  LET words == splitWords(toLowerCase(cleanedMessage))
      IsAction(word) == Contains(actionWords, word)
      InWords(term) == Contains(words, term)
      IsContext(word) == Len(word) > 4 /\ ~Contains(contextStopWords, word)
      action == FirstOr(words, IsAction, "update")
      term == FirstOr(technicalTerms, InWords, "")
      context == IF term # "" THEN term ELSE FirstOr(words, IsContext, "functionality")
  IN  action \o " " \o context

extractSummary(cleanedMessage) ==
  LET words == splitWords(toLowerCase(cleanedMessage))
      IsAction(word) == Contains(actionWords, word)
      InWords(term) == Contains(words, term)
      IsContext(word) == Len(word) > 4 /\ ~Contains(contextStopWords, word)
      action == FirstOr(words, IsAction, "update")
      term == FirstOr(technicalTerms, InWords, "")
      context == IF term # "" THEN term ELSE FirstOr(words, IsContext, "functionality")
  IN  IF InWords("git") /\ InWords("commit")
      THEN action \o " git commit " \o
             (IF InWords("body") THEN "body"
              ELSE IF InWords("subject") THEN "subject" ELSE "handling")
      ELSE IF InWords("template") \/ InWords("format")
      THEN action \o " " \o context \o " " \o
             (IF InWords("format") THEN "formatting" ELSE "template")
      ELSE action \o " " \o context

Conventional_createSummarySubject(longMessage) ==
  LET detectedType == detectCommitType(longMessage)
      cleanedMessage == removeTypeFromSubject(longMessage, detectedType)
      formattedSummary == lowercaseFirst(extractSummary(cleanedMessage))
  IN  detectedType \o ": " \o formattedSummary

Conventional_processBodyLine(line0) ==
  LET line == normalizeBullets(Drop(line0, TypePrefixLength(line0)))
  IN  IF /\ Len(line) > 0
         /\ ~startsWith(line, "-")
         /\ ~startsWith(line, " ")
         /\ (includes(line, "add") \/ includes(line, "fix") \/ includes(line, "update"))
      THEN "- " \o line
      ELSE line

Conventional_processBodyLines(lines) == MapSeq(lines, Conventional_processBodyLine)

(***************************************************************************)
(* FreeformFormatter (src/src/templates/formatters/FreeformFormatter.ts).  *)
(***************************************************************************)
Freeform_formatSubject(subject) == capitalizeFirst(removeTrailingPeriod(subject))

summaryStopWords ==
  <<"from", "with", "that", "this", "when", "where", "they", "have", "been", "will",
    "were", "are">>

SUMMARY_TRIGGER_LENGTH == 50
SUMMARY_MAX_WORDS == 6

Freeform_createSummarySubject(longMessage) ==
  LET words == splitWords(toLowerCase(longMessage))
      IsKey(word) == Len(word) > 3 /\ ~Contains(summaryStopWords, word)
      keyWords == SelectSeq(words, IsKey)
      summary == IF Len(trim(longMessage)) > SUMMARY_TRIGGER_LENGTH
                 THEN join(SubSeq(keyWords, 1, IF Len(keyWords) < SUMMARY_MAX_WORDS
                                               THEN Len(keyWords) ELSE SUMMARY_MAX_WORDS), " ")
                 ELSE trim(longMessage)
  IN  capitalizeFirst(summary)

Freeform_processBodyLines(lines) == MapSeq(lines, normalizeBullets)

(***************************************************************************)
(* BaseFormatter.format / formatBody and FormatterFactory                  *)
(* (src/src/templates/index.ts).                                           *)
(***************************************************************************)
SupportedStyles == {"conventional", "freeform"}

UnsupportedStyleError(style) == "Unsupported commit style: " \o style

formatSubject(style, subject) ==
  IF style = "conventional" THEN Conventional_formatSubject(subject)
  ELSE Freeform_formatSubject(subject)

createSummarySubject(style, longMessage) ==
  IF style = "conventional" THEN Conventional_createSummarySubject(longMessage)
  ELSE Freeform_createSummarySubject(longMessage)

processBodyLines(style, lines) ==
  IF style = "conventional" THEN Conventional_processBodyLines(lines)
  ELSE Freeform_processBodyLines(lines)

formatBody(style, body) ==
  IF trim(body) = "" THEN ""
  ELSE join(processBodyLines(style, parseLines(body)), "\n")

\* What a format call did: ok/value/error as returned or thrown, and the steps
\* it took: created = a formatter was selected, summarized = the subject came
\* from createSummarySubject, firstLine/body = what the formatter was given,
\* subject/formattedBody = what it assembled.
FormatFailure(e, line, rest) ==
  [ok |-> FALSE, value |-> "", error |-> e, created |-> FALSE, summarized |-> FALSE,
   firstLine |-> line, body |-> rest, subject |-> "", formattedBody |-> ""]

Assemble(subject, summarized, line, rest, formattedBody) ==
  [ok |-> TRUE,
   value |-> IF formattedBody # "" THEN subject \o "\n\n" \o formattedBody ELSE subject,
   error |-> "", created |-> TRUE, summarized |-> summarized,
   firstLine |-> line, body |-> rest, subject |-> subject, formattedBody |-> formattedBody]

\* body = "" stands for both the undefined and the empty body: the code tests
\* it for truthiness only.
BaseFormatter_format(style, subject, body) ==
  Bind(IF Len(subject) > SUBJECT_MAX_LENGTH THEN createSummarySubject(style, subject)
       ELSE formatSubject(style, subject),
       LAMBDA formattedSubject :
  Bind(IF body # "" THEN formatBody(style, body) ELSE "",
       LAMBDA formattedBody :
  Assemble(formattedSubject, Len(subject) > SUBJECT_MAX_LENGTH, subject, body,
           formattedBody)))

(***************************************************************************)
(* CommitMessageProcessor.format (src/unnamed/part_003).                   *)
(***************************************************************************)
CommitMessageProcessor_format(which, style, rawMessage) ==
  Bind(sanitizeWith(which, rawMessage), LAMBDA sanitizedMessage :
  IF ~sanitizedMessage.ok THEN FormatFailure(sanitizedMessage.error, "", "")
  ELSE
  Bind(parseLines(sanitizedMessage.value), LAMBDA lines :
  IF Len(lines) = 0 THEN FormatFailure(EmptyMessageError, "", "")
  ELSE
  Bind(IF Len(lines) > 1 THEN trim(join(Tail(lines), "\n")) ELSE "", LAMBDA body :
  IF style \notin SupportedStyles
  THEN FormatFailure(UnsupportedStyleError(style), lines[1], body)
  ELSE BaseFormatter_format(style, lines[1], body))))

(***************************************************************************)
(* Validators (src/src/templates/validators/*.ts and                       *)
(* ConventionalValidator in src/src/templates/formatters/FreeformFormatter.ts). *)
(***************************************************************************)
ErrTooLong == "Subject line exceeds 72 characters"
ErrEmpty == "Subject line is empty"
ErrFormat == "Subject line does not follow Conventional Commits format"
ErrLowercase == "Description should start with lowercase letter"
ErrPeriod == "Subject line should not end with a period"

Maybe(cond, e) == IF cond THEN <<e>> ELSE <<>>

getSubjectLine(message) == splitLines(message)[1]

validateBasicStructure(subject) ==
  Maybe(Len(subject) > SUBJECT_MAX_LENGTH, ErrTooLong) \o Maybe(Len(subject) = 0, ErrEmpty)

\* subject.match(/^[^:]+: (.)/) and match[1] !== match[1].toLowerCase(): the
\* first colon has at least one character before it, a space after it, and then
\* a character that lower-casing changes.
UppercaseAfterColon(subject) ==
  LET c == IndexOfFrom(subject, ":", 1)
  IN  /\ c >= 2
      /\ CharAt(subject, c + 1) = " "
      /\ AnyChar(subject, c + 2)
      /\ CharAt(subject, c + 2) # toLowerChar(CharAt(subject, c + 2))

Result(errors) == [valid |-> Len(errors) = 0, errors |-> errors]

ConventionalValidator_validate(message) ==
  LET subject == getSubjectLine(message)
  IN  Result(validateBasicStructure(subject)
             \o Maybe(~CONVENTIONAL_REGEX(subject), ErrFormat)
             \o Maybe(UppercaseAfterColon(subject), ErrLowercase)
             \o Maybe(endsWith(subject, "."), ErrPeriod))

FreeformValidator_validate(message) ==
  Result(validateBasicStructure(getSubjectLine(message)))

\* ValidatorFactory.create + validate: [ok, value, error] with value the result.
CommitMessageProcessor_validate(style, message) ==
  IF style = "conventional" THEN Return(ConventionalValidator_validate(message))
  ELSE IF style = "freeform" THEN Return(FreeformValidator_validate(message))
  ELSE [ok |-> FALSE, value |-> Result(<<>>), error |-> UnsupportedStyleError(style)]

(***************************************************************************)
(* The single-file formatter CommitMessageFormatter (src/src/templates.ts).*)
(***************************************************************************)
formatSubjectDescription(subject) ==
  IF subject = "" THEN "update code" ELSE lowercaseFirst(subject)

Legacy_ensureConventionalFormat(subject) ==
  IF CONVENTIONAL_REGEX(subject) THEN subject
  ELSE LET detectedType == detectCommitType(subject)
       IN  detectedType \o ": " \o
             formatSubjectDescription(removeTypeFromSubject(subject, detectedType))

formatSubjectLine(style, subject) ==
  IF style = "conventional"
  THEN Legacy_ensureConventionalFormat(removeTrailingPeriod(subject))
  ELSE removeTrailingPeriod(subject)

Legacy_createSummarySubject(style, longMessage) ==
  LET detectedType == detectCommitType(longMessage)
      cleanedMessage == removeTypeFromSubject(longMessage, detectedType)
      formattedSummary == formatSubjectDescription(extractSummary(cleanedMessage))
  IN  IF style = "conventional" THEN detectedType \o ": " \o formattedSummary
      ELSE formattedSummary

Legacy_formatBody(body) ==
  IF trim(body) = "" THEN ""
  ELSE join(Conventional_processBodyLines(parseLines(body)), "\n")

Legacy_bodyContent(firstLine, originalBody) ==
  IF Len(firstLine) > SUBJECT_MAX_LENGTH
  THEN (IF originalBody # "" THEN firstLine \o "\n\n" \o originalBody ELSE firstLine)
  ELSE originalBody

CommitMessageFormatter_format(style, rawMessage) ==
  Bind(sanitize(rawMessage), LAMBDA sanitizedMessage :
  IF ~sanitizedMessage.ok THEN FormatFailure(sanitizedMessage.error, "", "")
  ELSE
  Bind(parseLines(sanitizedMessage.value), LAMBDA lines :
  IF Len(lines) = 0 THEN FormatFailure(EmptyMessageError, "", "")
  ELSE
  Bind(IF Len(lines) > 1 THEN trim(join(Tail(lines), "\n")) ELSE "", LAMBDA originalBody :
  Bind(IF Len(lines[1]) > SUBJECT_MAX_LENGTH
       THEN Legacy_createSummarySubject(style, lines[1])
       ELSE formatSubjectLine(style, lines[1]),
       LAMBDA subject :
  Bind(Legacy_bodyContent(lines[1], originalBody), LAMBDA bodyContent :
  Bind(IF bodyContent # "" THEN Legacy_formatBody(bodyContent) ELSE "", LAMBDA body :
  Assemble(subject, Len(lines[1]) > SUBJECT_MAX_LENGTH, lines[1], originalBody,
           body)))))))

CommitMessageFormatter_validate(style, message) ==
  LET subject == getSubjectLine(message)
  IN  Return(Result(validateBasicStructure(subject)
                    \o (IF style = "conventional"
                        THEN Maybe(~CONVENTIONAL_REGEX(subject), ErrFormat)
                               \o Maybe(UppercaseAfterColon(subject), ErrLowercase)
                        ELSE <<>>)
                    \o Maybe(endsWith(subject, "."), ErrPeriod)))

(***************************************************************************)
(* Inputs.  A raw message is a first line, optionally padded to a length   *)
(* around SUBJECT_MAX_LENGTH, optionally followed by further lines; plus   *)
(* the degenerate inputs (absent, empty, blank, markdown only).            *)
(***************************************************************************)
\* Padded first lines have the lengths 72 - MaxOver .. 72 + MaxOver.
MaxOver == 1
\* Scenario C of the specification: a line well beyond the budget.
LongLength == 90

FirstLines ==
  {"fix(auth): handle missing token",
   "feat: Add thing",
   "feat(a:b): Add x",
   "added get_username method",
   "Fix memory leak in image processing pipeline.",
   "Update the git commit body template",
   "misc notes",
   "docs: describe setup.",
   "FEAT(core) : Big change..",
   "a:b: X",
   "feat:",
   "fix",
   ".",
   "Feat: fix: typo in parser",
   "feat: fix: typo in parser",
   "revert: undo it",
   "Documentation update for api.",
   "improve config template and validation rules",
   "Refactor the api format handling"}

\* The padding appended to a first line: glued letters (one long word), short
\* words, and longer words.
Fillers == {"x", " ab", " cache"}

RECURSIVE Repeat(_, _)
Repeat(f, n) == IF n <= 0 THEN "" ELSE f \o Repeat(f, n - 1)

\* line padded with copies of filler to exactly n characters (unchanged when
\* it is already that long); a final blank of the padding becomes a letter.
PadTo(line, filler, n) ==
  IF Len(line) >= n THEN line
  ELSE LET padded == Take(line \o Repeat(filler, n - Len(line)), n)
       IN  IF CharAt(padded, n) = " " THEN Take(padded, n - 1) \o "z" ELSE padded

PadLengths ==
  ((SUBJECT_MAX_LENGTH - MaxOver)..(SUBJECT_MAX_LENGTH + MaxOver)) \cup {LongLength}

PaddedLines ==
  FirstLines \cup {PadTo(l, f, n) : l \in FirstLines \ {"."}, f \in Fillers, n \in PadLengths}

\* The bullet U+2022 cannot be written in a string of this module; "@" stands
\* for it.  Like U+2022 it is no blank, no letter, and none of the characters
\* of BulletClass.
BULLET == "@"

Bodies ==
  {"",
   "\n\n* add new validator\n2. fix bug\nplain line",
   "\nfeat: leaked prefix\n  \nfeat:\n- kept",
   "\nupdate readme\n" \o BULLET \o " new marker"}

Degenerate ==
  {"", "   ", " \n\t\n", FENCE \o "\ncode\n" \o FENCE, "**" \o BACKTICK \o BACKTICK,
   "**Fix** " \o BACKTICK \o "parser" \o BACKTICK \o " *now*.",
   "  \n" \o FENCE \o "ts\nx\n" \o FENCE \o "\nadd parser test\n",
   "{" \o QUOTE \o "id" \o QUOTE \o ": " \o QUOTE \o "1" \o QUOTE \o ", n: 2}",
   "[skip ci]",
   "[WIP] add " \o QUOTE \o "parser" \o QUOTE \o " {draft}",
   "fix: escape " \o BACKSLASH \o QUOTE \o "x" \o BACKSLASH \o QUOTE \o BACKSLASH \o "nsecond line",
   "update usage docs\nusage: 12 total_tokens 40\nreasoning_details: none",
   "format: openai-responses v1"}

Absent == [present |-> FALSE, text |-> ""]
Given(text) == [present |-> TRUE, text |-> text]

RawMessages ==
  {Absent} \cup {Given(t) : t \in Degenerate}
           \cup {Given(l \o b) : l \in PaddedLines, b \in Bodies}

Styles == {"conventional", "freeform", "emoji"}
Implementations == {"CommitMessageProcessor", "CommitMessageFormatter"}

(***************************************************************************)
(* State: one call site.  raw/style/impl are the inputs; each operation    *)
(* records its outcome.                                                    *)
(***************************************************************************)
VARIABLES
  raw,        \* the raw message (or message to validate)
  style,      \* config.commitStyle
  impl,       \* which formatter class serves the call
  sanitizer,  \* which MessageSanitizer the processor imports
  pc,         \* the operation performed last
  sanitized,  \* outcome of sanitize(raw)
  detected,   \* outcome of detectCommitType(raw)
  fsubject,   \* outcome of formatSubject(raw)
  formatted,  \* outcome of format(raw)
  validation  \* outcome of validate(...)

\* AIServiceFactory (src/src/ai/AIServiceFactory.ts): the static provider cache
\* and the last call made on the factory.
VARIABLES
  providers,    \* AIServiceFactory.providers: cache key -> provider instance
  constructed,  \* number of provider objects constructed so far
  factoryCall,  \* the last call on the factory
  factoryResult \* what that call returned or threw

templateVars == <<raw, style, impl, sanitizer, pc, sanitized, detected, fsubject, formatted, validation>>
factoryVars == <<providers, constructed, factoryCall, factoryResult>>
\* One generateCommitMessage call on a provider (src/src/ai/providers/*.ts).
VARIABLES
  provider,    \* the class of the provider instance called
  config,      \* the Config passed to the call
  backend,     \* how the remote end behaves during the call
  callPc,      \* where the asynchronous call stands
  requests,    \* number of completion requests issued by the call
  request,     \* the body of the completion request
  callResult   \* what the returned promise settled with

providerVars == <<provider, config, backend, callPc, requests, request, callResult>>

\* One run of CommitWorkflow.execute (src/src/cli/CommitWorkflow.ts).
VARIABLES
  options,         \* the CommitOptions passed to execute
  repository,      \* the git side: repository present, staged diff, git commit succeeds
  workflowConfig,  \* config.commitStyle and the module that answers '../templates'
  workflow         \* the run: position, message, validation, prompts, commits, result

workflowVars == <<options, repository, workflowConfig, workflow>>

\* ConfigService (src/src/aiService.ts) over ~/.ai-commit.json.
VARIABLES
  configFile,  \* the configuration file: whether it exists and the object it holds
  saveCall,    \* the call on the service: position, the config passed, the file before
  saveResult,  \* outcome of save(config)
  loadResult   \* outcome of the load() that follows

configVars == <<configFile, saveCall, saveResult, loadResult>>
otherVars == <<factoryVars, providerVars, workflowVars, configVars>>
outsideFactory == <<templateVars, providerVars, workflowVars, configVars>>
outsideProvider == <<templateVars, factoryVars, workflowVars, configVars>>
outsideWorkflow == <<templateVars, factoryVars, providerVars, configVars>>
outsideConfig == <<templateVars, factoryVars, providerVars, workflowVars>>

vars == <<templateVars, otherVars>>

\* The provider cache of a fresh process, before any call on the factory.
NoProviders == [key \in {} |-> [class |-> "", id |-> 0]]
NoFactoryCall == [op |-> "none", aiProvider |-> "", model |-> ""]
NoFactoryResult == [ok |-> FALSE, instance |-> [class |-> "", id |-> 0], error |-> "not called"]

NoConfig == [apiKey |-> FALSE, apiUrl |-> FALSE, model |-> "", maxTokens |-> 0]
NoBackend == [kind |-> "none", completion |-> ""]
NoRequest == [sent |-> FALSE, model |-> "", tokenLimit |-> {}]
Pending == [settled |-> FALSE, ok |-> FALSE, value |-> "", error |-> ""]

\* No provider call is under way.
ProviderIdle ==
  /\ provider = ""
  /\ config = NoConfig
  /\ backend = NoBackend
  /\ callPc = "none"
  /\ requests = 0
  /\ request = NoRequest
  /\ callResult = Pending

FactoryInit ==
  /\ providers = NoProviders
  /\ constructed = 0
  /\ factoryCall = NoFactoryCall
  /\ factoryResult = NoFactoryResult

NoResult == [ok |-> FALSE, value |-> "", error |-> "not called"]
NoFormat == FormatFailure("not called", "", "")
NoValidation == [ok |-> FALSE, value |-> Result(<<>>), error |-> "not called"]

NoOptions == [message |-> [present |-> FALSE, text |-> ""], confirm |-> TRUE]
NoRepository == [isGitRepo |-> FALSE, stagedChanges |-> "", accepts |-> FALSE]
NoWorkflowConfig == [commitStyle |-> "", templates |-> "", sanitizer |-> "", autoCommit |-> FALSE]
NoCommitResult == [success |-> FALSE, message |-> "", error |-> ""]

\* execute has not been called.
NotStarted(at) ==
  [pc |-> at, commitMessage |-> "", validation |-> NoValidation, warnings |-> <<>>,
   proceed |-> "unasked", commitCalls |-> <<>>, commits |-> <<>>, result |-> NoCommitResult,
   trace |-> <<>>, validated |-> <<>>, displayed |-> <<>>,
   exit |-> [exited |-> FALSE, code |-> 0]]

\* JavaScript values of the fields of a configuration object.
Undefined == [kind |-> "undefined", s |-> "", n |-> 0, b |-> FALSE]
Null == [kind |-> "null", s |-> "", n |-> 0, b |-> FALSE]
NaN == [kind |-> "NaN", s |-> "", n |-> 0, b |-> FALSE]
Str(text) == [kind |-> "string", s |-> text, n |-> 0, b |-> FALSE]
Num(number) == [kind |-> "number", s |-> "", n |-> number, b |-> FALSE]
Bool(flag) == [kind |-> "boolean", s |-> "", n |-> 0, b |-> flag]

ConfigFields ==
  {"commitStyle", "aiProvider", "apiKey", "apiUrl", "model", "maxTokens", "includeContext",
   "autoCommit"}

EmptyObject == [f \in ConfigFields |-> Undefined]
NoFile == [exists |-> FALSE, data |-> EmptyObject]
NoSaveCall == [pc |-> "none", config |-> EmptyObject, before |-> NoFile]
NoSaveResult == [ok |-> FALSE, error |-> "not called"]
NoLoadResult == [ok |-> FALSE, error |-> "not called", isNull |-> FALSE, value |-> EmptyObject]

ConfigIdle ==
  /\ configFile = NoFile
  /\ saveCall = NoSaveCall
  /\ saveResult = NoSaveResult
  /\ loadResult = NoLoadResult

WorkflowIdle ==
  /\ options = NoOptions
  /\ repository = NoRepository
  /\ workflowConfig = NoWorkflowConfig
  /\ workflow = NotStarted("none")

Init ==
  /\ raw \in RawMessages
  /\ style \in Styles
  /\ impl \in Implementations
  /\ sanitizer \in Sanitizers
  /\ impl = "CommitMessageFormatter" => sanitizer = "markdown"
  /\ pc = "start"
  /\ sanitized = NoResult
  /\ detected = ""
  /\ fsubject = ""
  /\ formatted = NoFormat
  /\ validation = NoValidation
  /\ FactoryInit
  /\ ProviderIdle
  /\ WorkflowIdle
  /\ ConfigIdle

format(i, which, st, message) ==
  IF i = "CommitMessageProcessor" THEN CommitMessageProcessor_format(which, st, message)
  ELSE CommitMessageFormatter_format(st, message)

validate(i, st, message) ==
  IF i = "CommitMessageProcessor" THEN CommitMessageProcessor_validate(st, message)
  ELSE CommitMessageFormatter_validate(st, message)

\* A subject as the formatters receive it: one trimmed, non-empty line.
IsLine(text) == text # "" /\ ~includes(text, "\n") /\ trim(text) = text

\* MessageSanitizer.sanitize(raw)
Sanitize ==
  /\ pc = "start"
  /\ sanitized' = sanitizeWith(sanitizer, raw)
  /\ pc' = "sanitized"
  /\ UNCHANGED <<raw, style, impl, sanitizer, detected, fsubject, formatted, validation>>
  /\ UNCHANGED otherVars

\* ConventionalFormatter.detectCommitType(raw)
Detect ==
  /\ pc = "start"
  /\ raw.present
  /\ detected' = detectCommitType(raw.text)
  /\ pc' = "detected"
  /\ UNCHANGED <<raw, style, impl, sanitizer, sanitized, fsubject, formatted, validation>>
  /\ UNCHANGED otherVars

\* formatSubject(raw) of the configured style's formatter
FormatSubject ==
  /\ pc = "start"
  /\ raw.present /\ IsLine(raw.text)
  /\ style \in SupportedStyles
  /\ fsubject' = IF impl = "CommitMessageProcessor" THEN formatSubject(style, raw.text)
                 ELSE formatSubjectLine(style, raw.text)
  /\ pc' = "subject"
  /\ UNCHANGED <<raw, style, impl, sanitizer, sanitized, detected, formatted, validation>>
  /\ UNCHANGED otherVars

\* formatCommitMessage(raw, config)
Format ==
  /\ pc = "start"
  /\ formatted' = format(impl, sanitizer, style, raw)
  /\ pc' = "formatted"
  /\ UNCHANGED <<raw, style, impl, sanitizer, sanitized, detected, fsubject, validation>>
  /\ UNCHANGED otherVars

\* validateCommitMessage(raw, config): raw taken as a finished message
Validate ==
  /\ pc = "start"
  /\ raw.present
  /\ validation' = validate(impl, style, raw.text)
  /\ pc' = "validated"
  /\ UNCHANGED <<raw, style, impl, sanitizer, sanitized, detected, fsubject, formatted>>
  /\ UNCHANGED otherVars

\* validateCommitMessage(formatCommitMessage(raw, config), config)
ValidateFormatted ==
  /\ pc = "formatted"
  /\ formatted.ok
  /\ validation' = validate(impl, style, formatted.value)
  /\ pc' = "roundtrip"
  /\ UNCHANGED <<raw, style, impl, sanitizer, sanitized, detected, fsubject, formatted>>
  /\ UNCHANGED otherVars

\* formatCommitMessage(formatCommitMessage(raw, config), config): the message
\* format returned is given to format again; raw is the input of the last call.
FormatAgain ==
  /\ pc = "formatted"
  /\ formatted.ok
  /\ raw' = Given(formatted.value)
  /\ formatted' = format(impl, sanitizer, style, Given(formatted.value))
  /\ pc' = "reformatted"
  /\ UNCHANGED <<style, impl, sanitizer, sanitized, detected, fsubject, validation>>
  /\ UNCHANGED otherVars

Next ==
  \/ Sanitize
  \/ Detect
  \/ FormatSubject
  \/ Format
  \/ Validate
  \/ ValidateFormatted
  \/ FormatAgain

Spec == Init /\ [][Next]_vars

(***************************************************************************)
(* Claims.                                                                 *)
(***************************************************************************)
Subject(message) == splitLines(message)[1]

Formatted == pc \in {"formatted", "roundtrip"} /\ formatted.ok

\* The pattern <type>[(scope)]: <description> of a one-line subject, stated
\* by its parts: a known type, an optional parenthesised non-empty scope, a
\* colon and a space, and a non-empty description.
HasConventionalShape(s) ==
  \E t \in {"feat", "fix", "docs", "style", "refactor", "test", "chore", "perf", "ci", "build"} :
    \E c \in Len(t)..(Len(s) - 3) :
      /\ Take(s, Len(t)) = t
      /\ SubSeq(s, c + 1, c + 2) = ": "
      /\ \/ c = Len(t)
         \/ /\ c >= Len(t) + 3
            /\ CharAt(s, Len(t) + 1) = "("
            /\ CharAt(s, c) = ")"

\* C1: in the conventional style, validating the output of a successful
\* format of the modular pipeline gives valid = true and no error.
C1_RoundTrip ==
  (pc = "roundtrip" /\ style = "conventional" /\ impl = "CommitMessageProcessor")
    => (validation.ok /\ validation.value.valid /\ validation.value.errors = <<>>)

\* C2: whenever format succeeds, in both styles, the first line of the
\* returned message has at most 72 characters.
C2_SubjectLength ==
  (Formatted /\ style \in SupportedStyles)
    => Len(Subject(formatted.value)) <= 72

\* C3: the conventional subject formatter returns unchanged every subject that
\* has the conventional shape and does not end with a period.
C3_Idempotent ==
  (pc = "subject" /\ style = "conventional"
     /\ HasConventionalShape(raw.text) /\ ~endsWith(raw.text, "."))
    => fsubject = raw.text

C3_Witness ==
  /\ pc = "subject" /\ style = "conventional"
  /\ raw.text = "fix(auth): handle missing token"
  /\ fsubject = "fix(auth): handle missing token"

\* C4: the detected type is the first type, in the order feat, fix, docs,
\* refactor, test, style, perf, build, ci, with a keyword occurring in the
\* lower-cased text, and feat when no type has one; it is never chore.
C4_Order == <<"feat", "fix", "docs", "refactor", "test", "style", "perf", "build", "ci">>

C4_Hit(text, i) ==
  \E k \in 1..Len(TYPE_DETECTION_MAP[C4_Order[i]]) :
     includes(toLowerCase(text), TYPE_DETECTION_MAP[C4_Order[i]][k])

C4_FirstHitWins ==
  pc = "detected"
    => /\ detected # "chore"
       /\ \/ /\ \A i \in 1..Len(C4_Order) : ~C4_Hit(raw.text, i)
             /\ detected = "feat"
          \/ \E i \in 1..Len(C4_Order) :
               /\ detected = C4_Order[i]
               /\ C4_Hit(raw.text, i)
               /\ \A j \in 1..(i - 1) : ~C4_Hit(raw.text, j)

\* A text with keywords of several types (doc, test) where a later type of
\* the conventional-type list (style: "format") does not win.
C4_Witness ==
  /\ pc = "detected"
  /\ raw.text = "Fix memory leak in image processing pipeline."
  /\ detected = "fix"

\* C5: the summarizer is used exactly when the first non-empty line is longer
\* than 72 characters, and then the returned message holds the original line
\* at the start of its body.
C5_LongLineKept ==
  Formatted
    => /\ formatted.summarized <=> Len(formatted.firstLine) > 72
       /\ formatted.summarized
            => /\ startsWith(formatted.formattedBody, formatted.firstLine)
               /\ includes(formatted.value, formatted.firstLine)

\* C6: whenever format succeeds the message has a non-empty first line and is
\* the subject alone or subject, one blank line, non-empty body.
C6_MessageShape ==
  Formatted
    => LET lines == splitLines(formatted.value)
       IN  /\ lines[1] # ""
           /\ \/ Len(lines) = 1
              \/ Len(lines) >= 3 /\ lines[2] = "" /\ lines[3] # ""

\* C7: format fails, returns no message and selects no formatter when raw is
\* absent, empty, or leaves no non-empty line after sanitization (the
\* sanitized text is nothing but whitespace and line breaks).
NoLinesLeft ==
  \/ ~raw.present
  \/ raw.text = ""
  \/ trim(sanitizeWith(sanitizer, raw).value) = ""

C7_EmptyRejected ==
  (pc = "formatted" /\ NoLinesLeft)
    => /\ ~formatted.ok
       /\ formatted.value = ""
       /\ formatted.error \in {InvalidInputError, EmptyMessageError}
       /\ ~formatted.created

\* Whitespace only, and a fenced code block only.
C7_Witness ==
  /\ pc = "formatted"
  /\ raw.present
  /\ raw.text \in {"   ", FENCE \o "\ncode\n" \o FENCE}
  /\ formatted.error = EmptyMessageError

C9_UppercaseAfterColonSpace(s) ==
  LET i == IndexOfFrom(s, ": ", 1)
  IN  i > 0 /\ CharAt(s, i + 2) \in UpperSet

C9_Expected(s) ==
  Maybe(Len(s) > 72, ErrTooLong)
    \o Maybe(Len(s) = 0, ErrEmpty)
    \o Maybe(~HasConventionalShape(s), ErrFormat)
    \o Maybe(C9_UppercaseAfterColonSpace(s), ErrLowercase)
    \o Maybe(endsWith(s, "."), ErrPeriod)

C9_ConventionalErrors ==
  (pc \in {"validated", "roundtrip"} /\ style = "conventional")
    => LET s == Subject(IF pc = "validated" THEN raw.text ELSE formatted.value)
       IN  /\ validation.ok
           /\ validation.value.errors = C9_Expected(s)
           /\ validation.value.valid <=> C9_Expected(s) = <<>>

\* C10: the freeform validator accepts exactly the subjects of 1..72
\* characters, never reports a format, lowercase or period violation, and
\* reports the empty subject first for the empty message.
C10_FreeformLengthOnly ==
  (pc = "validated" /\ style = "freeform")
    => LET s == Subject(raw.text)
           errors == validation.value.errors
       IN  /\ validation.ok
           /\ validation.value.valid <=> (Len(s) >= 1 /\ Len(s) <= 72)
           /\ \A i \in 1..Len(errors) : errors[i] \notin {ErrFormat, ErrLowercase, ErrPeriod}
           /\ raw.text = "" => (~validation.value.valid /\ errors[1] = ErrEmpty)

\* The type the classifier is specified to give: the first of C4_Order with a
\* keyword in the lower-cased text, feat when there is none.
C11_Type(text) ==
  LET hits == {i \in 1..Len(C4_Order) : C4_Hit(text, i)}
  IN  IF hits = {} THEN "feat"
      ELSE C4_Order[CHOOSE i \in hits : \A j \in hits : i <= j]

C11_AllBlank(s, from, to) == \A k \in from..to : CharAt(s, k) \in Whitespace

\* The lengths n for which the first n characters of s are a conventional
\* prefix: a type name in any case, an optional parenthesised scope, blanks, a
\* colon, blanks.
C11_PrefixEnds(s) ==
  Bind(toLowerCase(s), LAMBDA lower :
  {n \in 1..Len(s) :
     \E t \in {"feat", "fix", "docs", "style", "refactor", "test", "chore", "perf",
               "ci", "build", "revert"} :
       /\ startsWith(lower, t)
       /\ \E c \in {i \in (Len(t) + 1)..n : CharAt(s, i) = ":"} :
            /\ C11_AllBlank(s, c + 1, n)
            /\ \E q \in Len(t)..(c - 1) :
                 /\ C11_AllBlank(s, q + 1, c - 1)
                 /\ \/ q = Len(t)
                    \/ /\ q >= Len(t) + 2
                       /\ CharAt(s, Len(t) + 1) = "("
                       /\ CharAt(s, q) = ")"
                       /\ \A k \in (Len(t) + 2)..(q - 1) : CharAt(s, k) # ")"})

\* The lengths n for which the first n characters of s are a keyword of the
\* type, in any case, followed by at least one blank.
C11_KeywordEnds(s, type) ==
  Bind(toLowerCase(s), LAMBDA lower :
  {n \in 1..Len(s) :
     \E k \in 1..Len(TYPE_DETECTION_MAP[type]) :
       LET word == TYPE_DETECTION_MAP[type][k]
       IN  /\ startsWith(lower, word)
           /\ n > Len(word)
           /\ C11_AllBlank(s, Len(word) + 1, n)})

C11_Longest(ends) ==
  IF ends = {} THEN 0 ELSE CHOOSE n \in ends : \A m \in ends : m <= n

C11_Description(subject, type) ==
  LET noPeriod == IF endsWith(subject, ".") THEN Take(subject, Len(subject) - 1)
                  ELSE subject
      noPrefix == Drop(noPeriod, C11_Longest(C11_PrefixEnds(noPeriod)))
      noKeyword == Drop(noPrefix, C11_Longest(C11_KeywordEnds(noPrefix, type)))
  IN  IF noKeyword = "" THEN "update code"
      ELSE toLowerChar(Head(noKeyword)) \o Tail(noKeyword)

\* C11: on a subject without the conventional shape, the conventional
\* formatSubject returns <type>: <description>, the type being the classified
\* one and the description the subject less one trailing period, less a
\* leading conventional prefix, less a leading keyword of the type that is
\* followed by a blank, with its first letter lower-cased, or "update code"
\* when nothing is left.
C11_Reformatted ==
  (pc = "subject" /\ style = "conventional" /\ ~HasConventionalShape(raw.text))
    => fsubject = C11_Type(raw.text) \o ": "
                    \o C11_Description(raw.text, C11_Type(raw.text))

C11_Witness ==
  /\ pc = "subject" /\ style = "conventional"
  /\ \/ /\ raw.text = "Fix memory leak in image processing pipeline."
        /\ fsubject = "fix: memory leak in image processing pipeline"
     \/ /\ raw.text = "added get_username method"
        /\ fsubject = "feat: added get_username method"

\* The lengths n for which the first n characters of s are exactly a prefix
\* <type>: or <type>(<scope>): followed by one space, with a known type.
C12_StrictPrefixEnds(s) ==
  {n \in 1..Len(s) :
     \E t \in {"feat", "fix", "docs", "style", "refactor", "test", "chore", "perf",
               "ci", "build"} :
       /\ startsWith(s, t)
       /\ n >= Len(t) + 2
       /\ SubSeq(s, n - 1, n) = ": "
       /\ \/ n = Len(t) + 2
          \/ /\ n >= Len(t) + 5
             /\ CharAt(s, Len(t) + 1) = "("
             /\ CharAt(s, n - 2) = ")"}

\* C12: the subject the conventional formatter returns never holds a second
\* conventional prefix right after its first one.
C12_NoDuplicatePrefix ==
  (style = "conventional" /\ (pc = "subject" \/ Formatted))
    => LET subject == IF pc = "subject" THEN fsubject ELSE Subject(formatted.value)
           ends == C12_StrictPrefixEnds(subject)
       IN  \A n \in ends : C12_StrictPrefixEnds(Drop(subject, n)) = {}

\* Length of a leading bullet marker of a body line with the blanks after it:
\* one of the bullet characters, or digits and a dot; 0 when there is none.
C13_BlanksFrom(line, from) ==
  C11_Longest({n \in 1..(Len(line) - from + 1) : C11_AllBlank(line, from, from + n - 1)})

C13_MarkerLength(line) ==
  IF CharAt(line, 1) \in {BULLET, "*", "+"}
  THEN 1 + C13_BlanksFrom(line, 2)
  ELSE LET dots == {d \in 2..Len(line) :
                      /\ CharAt(line, d) = "."
                      /\ \A k \in 1..(d - 1) : CharAt(line, k) \in DigitSet}
       IN  IF dots = {} THEN 0
           ELSE C11_Longest(dots) + C13_BlanksFrom(line, C11_Longest(dots) + 1)

\* The body line as specified: in the conventional style a leaked type prefix
\* is dropped first; a bullet marker becomes "- "; a line that starts with
\* neither a dash nor a blank and names add, fix or update gets "- ".
C13_Line(st, line0) ==
  LET line == IF st = "conventional"
              THEN Drop(line0, C11_Longest(C11_PrefixEnds(line0)))
              ELSE line0
      marked == IF C13_MarkerLength(line) > 0
                THEN "- " \o Drop(line, C13_MarkerLength(line))
                ELSE line
  IN  IF /\ marked # ""
         /\ CharAt(marked, 1) \notin {"-", " "}
         /\ \E w \in {"add", "fix", "update"} : includes(marked, w)
      THEN "- " \o marked
      ELSE marked

\* C13: formatBody returns the trimmed non-empty lines of the body in their
\* order, each with its bullet marker replaced by one "- " and with "- " put
\* before a line that names add, fix or update and starts with neither a dash
\* nor a blank.
C13_BodyLines ==
  (Formatted /\ impl = "CommitMessageProcessor" /\ style \in {"conventional", "freeform"})
    => LET trimmed == [i \in 1..Len(splitLines(formatted.body)) |->
                         trim(splitLines(formatted.body)[i])]
           kept == SelectSeq(trimmed, LAMBDA l : l # "")
       IN  formatted.formattedBody
             = join([i \in 1..Len(kept) |-> C13_Line(style, kept[i])], "\n")

\* C14: with a commit style other than conventional and freeform, format of a
\* raw text with a non-empty line and validate of any message fail with the
\* unsupported-style error and return nothing.
C14_UnsupportedStyleFails ==
  style \notin {"conventional", "freeform"}
    => /\ (pc = "formatted" /\ raw.present /\ ~NoLinesLeft)
            => /\ ~formatted.ok
               /\ formatted.value = ""
               /\ formatted.error = "Unsupported commit style: " \o style
       /\ pc = "validated"
            => /\ ~validation.ok
               /\ validation.error = "Unsupported commit style: " \o style

(***************************************************************************)
(* AIServiceFactory (src/src/ai/AIServiceFactory.ts).                       *)
(***************************************************************************)
\* No formatter call is under way while the factory is exercised.
TemplateIdle ==
  /\ raw = Absent
  /\ style = "conventional"
  /\ impl = "CommitMessageProcessor"
  /\ sanitizer = "markdown"
  /\ pc = "start"
  /\ sanitized = NoResult
  /\ detected = ""
  /\ fsubject = ""
  /\ formatted = NoFormat
  /\ validation = NoValidation

\* The cases of the switch on config.aiProvider and the class each constructs.
ProviderClass ==
  [openai |-> "OpenAIProvider", openrouter |-> "OpenRouterProvider",
   ollama |-> "OllamaProvider", custom |-> "CustomProvider"]

SupportedProviders == DOMAIN ProviderClass

\* config.aiProvider as a configuration file can hold it: the supported tags
\* and tags the switch does not know.
ProviderTags == SupportedProviders \cup {"gemini", "custom-gpt"}

\* config.model
Models == {"gpt", "4", "gpt-4"}

MaxInstances == 3

cacheKey(aiProvider, model) == aiProvider \o "-" \o model

UnsupportedProviderError(aiProvider) == "Unsupported AI provider: " \o aiProvider

\* providers.set(cacheKey, provider)
CachePut(cache, key, instance) ==
  [k \in DOMAIN cache \cup {key} |-> IF k = key THEN instance ELSE cache[k]]

\* AIServiceFactory.createProvider(config)
createProvider(aiProvider, model) ==
  /\ factoryCall' = [op |-> "createProvider", aiProvider |-> aiProvider, model |-> model]
  /\ IF cacheKey(aiProvider, model) \in DOMAIN providers
     THEN /\ factoryResult' = [ok |-> TRUE, instance |-> providers[cacheKey(aiProvider, model)],
                               error |-> ""]
          /\ UNCHANGED <<providers, constructed>>
     ELSE IF aiProvider \in SupportedProviders
     THEN /\ constructed < MaxInstances
          /\ constructed' = constructed + 1
          /\ providers' = CachePut(providers, cacheKey(aiProvider, model),
                                   [class |-> ProviderClass[aiProvider], id |-> constructed + 1])
          /\ factoryResult' = [ok |-> TRUE,
                               instance |-> [class |-> ProviderClass[aiProvider],
                                             id |-> constructed + 1],
                               error |-> ""]
     ELSE /\ factoryResult' = [ok |-> FALSE, instance |-> NoFactoryResult.instance,
                               error |-> UnsupportedProviderError(aiProvider)]
          /\ UNCHANGED <<providers, constructed>>

CreateProvider ==
  /\ \E aiProvider \in ProviderTags, model \in Models : createProvider(aiProvider, model)
  /\ UNCHANGED outsideFactory

\* AIServiceFactory.clearCache()
ClearCache ==
  /\ providers' = NoProviders
  /\ factoryCall' = [op |-> "clearCache", aiProvider |-> "", model |-> ""]
  /\ factoryResult' = NoFactoryResult
  /\ UNCHANGED constructed
  /\ UNCHANGED outsideFactory

FactoryNext ==
  \/ CreateProvider
  \/ ClearCache

\* A fresh process: nothing cached, no call under way.
FactoryStart == TemplateIdle /\ FactoryInit /\ ProviderIdle /\ WorkflowIdle /\ ConfigIdle

FactorySpec == FactoryStart /\ [][FactoryNext]_vars

\* C15: a createProvider call with a supported tag returns the instance the
\* cache holds for (tag, model) when it holds one, and caches the instance it
\* returns; every cached instance is of the class of its key's tag; only
\* clearCache removes an entry; a call with an unsupported tag fails and
\* leaves the cache as it was.
C15_Step ==
  /\ factoryCall'.op = "createProvider"
       => LET tag == factoryCall'.aiProvider
              key == factoryCall'.aiProvider \o "-" \o factoryCall'.model
          IN  IF tag \in {"openai", "openrouter", "ollama", "custom"}
              THEN /\ factoryResult'.ok
                   /\ key \in DOMAIN providers' /\ providers'[key] = factoryResult'.instance
                   /\ key \in DOMAIN providers => factoryResult'.instance = providers[key]
              ELSE /\ ~factoryResult'.ok
                   /\ factoryResult'.error = "Unsupported AI provider: " \o tag
                   /\ providers' = providers
  /\ factoryCall'.op # "clearCache"
       => \A key \in DOMAIN providers :
            key \in DOMAIN providers' /\ providers'[key] = providers[key]
  /\ \A tag \in {"openai", "openrouter", "ollama", "custom"}, model \in Models :
       (tag \o "-" \o model) \in DOMAIN providers'
         => providers'[tag \o "-" \o model].class
              = ProviderClass[tag]

C15_Memoized == [][C15_Step]_vars

(***************************************************************************)
(* Model configurations (src/src/ai/ModelConfigurations.ts).                *)
(***************************************************************************)
\* COMMON_MODEL_CONFIGS: model name -> maxTokensField
COMMON_MODEL_CONFIGS ==
  [m \in {"gpt-5", "gpt-5-nano", "gpt-4o", "gpt-4o-mini", "gpt-4.1-nano",
          "claude-4-sonnet", "claude-3.5-sonnet-20241022", "claude-3-sonnet-20240229",
          "custom", "default"} |->
     IF m \in {"gpt-5", "gpt-5-nano", "gpt-4o", "gpt-4o-mini", "gpt-4.1-nano"}
     THEN "max_completion_tokens" ELSE "max_tokens"]

OPENROUTER_MODEL_PREFIXES ==
  [m \in {"openai/gpt-5", "openai/gpt-5-nano", "openai/gpt-4o", "openai/gpt-4o-mini",
          "openai/gpt-4.1-nano", "anthropic/claude-4-sonnet",
          "anthropic/claude-3.5-sonnet", "anthropic/claude-3-sonnet"} |->
     IF m = "anthropic/claude-3.5-sonnet" THEN "claude-3.5-sonnet-20241022"
     ELSE IF m = "anthropic/claude-3-sonnet" THEN "claude-3-sonnet-20240229"
     ELSE Drop(m, IndexOfFrom(m, "/", 1))]

getModelConfigByPattern(modelName) ==
  IF includes(toLowerCase(modelName), "gpt-4") \/ includes(toLowerCase(modelName), "gpt-5")
  THEN "max_completion_tokens"
  ELSE "max_tokens"

\* getModelConfig(modelName, provider).maxTokensField
getModelConfig(modelName, providerType) ==
  LET configKey == IF providerType = "openrouter" /\ modelName \in DOMAIN OPENROUTER_MODEL_PREFIXES
                   THEN OPENROUTER_MODEL_PREFIXES[modelName]
                   ELSE modelName
  IN  IF configKey \in DOMAIN COMMON_MODEL_CONFIGS THEN COMMON_MODEL_CONFIGS[configKey]
      ELSE getModelConfigByPattern(modelName)

(***************************************************************************)
(* Providers (src/src/ai/providers/*.ts).                                   *)
(***************************************************************************)
Providers == {"OpenAIProvider", "OpenRouterProvider", "OllamaProvider", "CustomProvider"}

getProviderName(p) ==
  IF p = "OpenAIProvider" THEN "OpenAI"
  ELSE IF p = "OpenRouterProvider" THEN "OpenRouter"
  ELSE IF p = "OllamaProvider" THEN "Ollama"
  ELSE "Custom API"

\* getProviderType() of the classes that define it.
getProviderType(p) == IF p = "OpenAIProvider" THEN "openai" ELSE "custom"

\* A createError that passes the underlying message on without the provider's
\* name.
createError_Bare(p, message) == message

\* BaseProvider.createError(operation, error) for an Error
createError(p, message) == getProviderName(p) \o " API error: " \o message

\* BaseProvider.getTokenLimitOptions(config): the fields of the returned object
getTokenLimitOptions(p, cfg) ==
  IF getModelConfig(cfg.model, getProviderType(p)) = "max_completion_tokens"
  THEN {<<"max_completion_tokens", cfg.maxTokens>>}
  ELSE {<<"max_tokens", cfg.maxTokens>>}

\* The limit fields of the request body each provider builds.
RequestBody(p, cfg) ==
  [sent |-> TRUE,
   model |-> cfg.model,
   tokenLimit |-> IF p = "OpenRouterProvider" THEN {<<"max_tokens", cfg.maxTokens>>}
                  ELSE IF p = "OllamaProvider" THEN {<<"num_predict", cfg.maxTokens>>}
                  ELSE getTokenLimitOptions(p, cfg)]

\* The credential each provider requires, and the error thrown without it.
HasCredential(p, cfg) ==
  IF p \in {"OpenAIProvider", "OpenRouterProvider"} THEN cfg.apiKey ELSE cfg.apiUrl

MissingCredentialError(p) ==
  IF p = "OpenAIProvider" THEN "OpenAI API key is required"
  ELSE IF p = "OpenRouterProvider" THEN "OpenRouter API key is required"
  ELSE IF p = "OllamaProvider" THEN "Ollama API URL is required"
  ELSE "Custom API URL is required"

\* Statuses the remote end answers with.
HTTP_ERROR_STATUS == "500"
HTTP_NOT_FOUND == "404"
HTTP_UNAVAILABLE == "503"

\* The message of the error raised inside the try block for a response that
\* is no success.
HttpErrorMessage(p, status) ==
  IF p = "OpenAIProvider" THEN status \o " status code (no body)"
  ELSE IF p = "OpenRouterProvider" THEN "HTTP " \o status \o " - error"
  ELSE IF p = "OllamaProvider"
  THEN IF status = HTTP_NOT_FOUND
       THEN "Model not found. Available models: run 'ollama list' to see installed models"
       ELSE "HTTP " \o status \o ": error"
  ELSE "HTTP " \o status \o ": error"

NoResponseMessage(p) ==
  IF p = "OpenAIProvider" THEN "No response from OpenAI"
  ELSE IF p = "OpenRouterProvider" THEN "No response from OpenRouter. Response: {}"
  ELSE IF p = "OllamaProvider" THEN "Empty response from Ollama"
  ELSE "No response from custom API"

\* A body that is no JSON: response.json() rejects; the Ollama provider falls
\* back to line-wise parsing and finds no content.
MalformedMessage(p) ==
  IF p = "OllamaProvider" THEN "Empty response from Ollama"
  ELSE "Unexpected token < in JSON at position 0"

\* The rejection of a request whose connection fails or is given up by the
\* HTTP client.
TransportMessage(p) ==
  IF p = "OpenAIProvider" THEN "Connection error." ELSE "fetch failed"

OllamaRequestTimeout ==
  "Ollama request timed out. The model might be loading or the request is too complex."
OllamaNotReachable ==
  "Ollama server is not running or not reachable. Please start Ollama with: ollama serve"
OllamaCannotConnect ==
  "Cannot connect to Ollama. Please ensure Ollama is running on http://localhost:11434"
OllamaConnectionFailed(status) ==
  "Ollama connection failed: Ollama server not responding (HTTP " \o status \o ")"

Resolve(v) == [settled |-> TRUE, ok |-> TRUE, value |-> v, error |-> ""]
Reject(e) == [settled |-> TRUE, ok |-> FALSE, value |-> "", error |-> e]

\* What each provider makes of a completion text it received.
ExtractMessage(p, completion) ==
  IF p \in {"OpenAIProvider", "OpenRouterProvider"}
  THEN IF completion = "" THEN Reject(createError(p, NoResponseMessage(p)))
       ELSE Resolve(trim(completion))
  ELSE IF p = "OllamaProvider"
  THEN Bind(trim(completion),
            LAMBDA fullMessage :
              IF fullMessage = "" THEN Reject(createError(p, NoResponseMessage(p)))
              ELSE Resolve(trim(splitLines(fullMessage)[1])))
  ELSE IF completion = "" THEN Reject(createError(p, NoResponseMessage(p)))
       ELSE Resolve(trim(splitLines(completion)[1]))

\* The outcome of the call once the completion request is answered.
Answered(p, b) ==
  IF b.kind = "completion" THEN ExtractMessage(p, b.completion)
  ELSE IF b.kind = "malformed" THEN Reject(createError(p, MalformedMessage(p)))
  ELSE IF b.kind = "not_found" THEN Reject(createError(p, HttpErrorMessage(p, HTTP_NOT_FOUND)))
  ELSE IF b.kind = "unhealthy" THEN Reject(createError(p, HttpErrorMessage(p, HTTP_UNAVAILABLE)))
  ELSE IF b.kind = "refused" THEN Reject(createError(p, TransportMessage(p)))
  ELSE Reject(createError(p, HttpErrorMessage(p, HTTP_ERROR_STATUS)))

\* Inputs of a call.
Completions ==
  {"feat: add parser\n\n- add tests\n- update docs",
   "  fix: typo  \n",
   "\nchore: late subject",
   "   ",
   ""}

Backends ==
  {[kind |-> "completion", completion |-> c] : c \in Completions}
    \cup {[kind |-> k, completion |-> ""] :
            k \in {"http_error", "not_found", "unhealthy", "malformed", "refused", "silent",
                   "stalled"}}

\* Backends that never answer the completion request ("stalled" still answers
\* the Ollama health check).
Unanswering == {"silent", "stalled"}

ModelNames ==
  {"gpt-4o-mini", "openai/gpt-5-nano", "gpt-3.5-turbo", "anthropic/claude-3.5-sonnet",
   "GPT-4-turbo", "llama2"}

TokenBudgets == {150, 300}

Configs ==
  [apiKey : BOOLEAN, apiUrl : BOOLEAN, model : ModelNames, maxTokens : TokenBudgets]

ProviderInit ==
  /\ provider \in Providers
  /\ config \in Configs
  /\ backend \in Backends
  /\ callPc = "idle"
  /\ requests = 0
  /\ request = NoRequest
  /\ callResult = Pending

\* The completion request goes out.
SendRequest ==
  /\ requests' = requests + 1
  /\ request' = RequestBody(provider, config)
  /\ callPc' = "awaiting"
  /\ UNCHANGED callResult

Settle(result) ==
  /\ callResult' = result
  /\ callPc' = "settled"
  /\ UNCHANGED <<requests, request>>

\* generateCommitMessage(stagedChanges, config) up to its first await on the
\* network.
Call ==
  /\ callPc = "idle"
  /\ IF ~HasCredential(provider, config) THEN Settle(Reject(MissingCredentialError(provider)))
     ELSE IF provider = "OllamaProvider"
     THEN /\ callPc' = "connecting"
          /\ UNCHANGED <<requests, request, callResult>>
     ELSE SendRequest
  /\ UNCHANGED <<provider, config, backend>>
  /\ UNCHANGED outsideProvider

\* OllamaProvider.testConnection: the health check is answered or fails.
HealthSettles ==
  /\ callPc = "connecting"
  /\ backend.kind # "silent"
  /\ IF backend.kind = "refused" THEN Settle(Reject(OllamaCannotConnect))
     ELSE IF backend.kind = "unhealthy"
     THEN Settle(Reject(OllamaConnectionFailed(HTTP_UNAVAILABLE)))
     ELSE SendRequest
  /\ UNCHANGED <<provider, config, backend>>
  /\ UNCHANGED outsideProvider

\* OllamaProvider.testConnection: AbortSignal.timeout(15000) fires.
HealthTimeout ==
  /\ callPc = "connecting"
  /\ Settle(Reject(OllamaNotReachable))
  /\ UNCHANGED <<provider, config, backend>>
  /\ UNCHANGED outsideProvider

\* The completion request is answered, or its connection fails.
RequestSettles ==
  /\ callPc = "awaiting"
  /\ backend.kind \notin Unanswering
  /\ Settle(Answered(provider, backend))
  /\ UNCHANGED <<provider, config, backend>>
  /\ UNCHANGED outsideProvider

\* OllamaProvider: AbortSignal.timeout(120000) fires.
RequestTimeout ==
  /\ callPc = "awaiting"
  /\ provider = "OllamaProvider"
  /\ Settle(Reject(OllamaRequestTimeout))
  /\ UNCHANGED <<provider, config, backend>>
  /\ UNCHANGED outsideProvider

\* The other providers pass no signal and no timeout: the providers never end
\* the wait themselves; the HTTP client may give the request up.
TransportFailure ==
  /\ callPc = "awaiting"
  /\ provider # "OllamaProvider"
  /\ backend.kind \in Unanswering
  /\ Settle(Reject(createError(provider, TransportMessage(provider))))
  /\ UNCHANGED <<provider, config, backend>>
  /\ UNCHANGED outsideProvider

ProviderNext ==
  \/ Call
  \/ HealthSettles
  \/ HealthTimeout
  \/ RequestSettles
  \/ RequestTimeout
  \/ TransportFailure

\* A provider instance about to be called.
ProviderStart == TemplateIdle /\ FactoryInit /\ ProviderInit /\ WorkflowIdle /\ ConfigIdle

ProviderSpec == ProviderStart /\ [][ProviderNext]_vars

\* The event loop runs every continuation that is ready and every timer that
\* was set; nothing obliges the HTTP client to give a request up.
ProviderFairness ==
  /\ WF_vars(Call)
  /\ WF_vars(HealthSettles)
  /\ WF_vars(HealthTimeout)
  /\ WF_vars(RequestSettles)
  /\ WF_vars(RequestTimeout)

ProviderLiveSpec == ProviderSpec /\ ProviderFairness

C16_DisplayName ==
  [OpenAIProvider |-> "OpenAI", OpenRouterProvider |-> "OpenRouter",
   OllamaProvider |-> "Ollama", CustomProvider |-> "Custom API"]

\* The error names the backend and carries an underlying message.
C16_Wrapped ==
  /\ startsWith(callResult.error, C16_DisplayName[provider] \o " API error: ")
  /\ Len(callResult.error) > Len(C16_DisplayName[provider] \o " API error: ")

C16_Failed == callPc = "settled" /\ ~callResult.ok

\* C16 as stated: every failure of generateCommitMessage is wrapped as
\* <display name> API error: <underlying message>, and the completion request
\* is issued at most once.
C16_AlwaysWrapped ==
  /\ requests <= 1
  /\ C16_Failed => C16_Wrapped

\* C16 amended: the completion request is issued at most once per call; a
\* failure is wrapped exactly when it happens after the request was issued
\* and is not the Ollama request timeout; a missing credential or URL, a failed
\* Ollama connection check and the Ollama request timeout keep their own
\* messages.
C16_WrappedAfterRequest ==
  /\ requests <= 1
  /\ C16_Failed
       => /\ C16_Wrapped
            <=> (requests = 1
                   /\ callResult.error # "Ollama request timed out. The model might be loading or the request is too complex.")
          /\ (provider \in {"OpenAIProvider", "OpenRouterProvider"} /\ ~config.apiKey)
               => callResult.error = C16_DisplayName[provider] \o " API key is required"
          /\ (provider = "OllamaProvider" /\ ~config.apiUrl)
               => callResult.error = "Ollama API URL is required"
          /\ (provider = "CustomProvider" /\ ~config.apiUrl)
               => callResult.error = "Custom API URL is required"
          /\ (requests = 0 /\ provider = "OllamaProvider" /\ config.apiUrl)
               => \/ startsWith(callResult.error, "Ollama server is not running or not reachable.")
                  \/ startsWith(callResult.error, "Cannot connect to Ollama.")
                  \/ startsWith(callResult.error, "Ollama connection failed: ")

C16_Witness ==
  /\ callPc = "settled"
  /\ provider = "CustomProvider"
  /\ backend.kind = "http_error"
  /\ requests = 1
  /\ callResult.error = "Custom API API error: HTTP 500: error"

\* C17: a successful call returns the whole text of the completion, trimmed,
\* for every provider: no line of a multi-line completion is dropped.
C17_FullText ==
  (callPc = "settled" /\ callResult.ok) => callResult.value = trim(backend.completion)

\* The wait on the network ended with an error that names the timeout.
C18_TimedOut ==
  /\ callPc = "settled"
  /\ ~callResult.ok
  /\ \/ includes(toLowerCase(callResult.error), "timed out")
     \/ includes(toLowerCase(callResult.error), "timeout")
     \/ callResult.error = OllamaNotReachable

C18_Waiting == callPc \in {"connecting", "awaiting"} /\ backend.kind \in Unanswering

\* C18: a call that waits on a backend that never answers eventually ends with
\* a timeout-specific error, for every provider.
C18_BoundedWait == C18_Waiting ~> C18_TimedOut

\* The token-limit field the model family requires.
C19_RequiredField(model) ==
  IF includes(toLowerCase(model), "gpt-4") \/ includes(toLowerCase(model), "gpt-5")
  THEN "max_completion_tokens"
  ELSE "max_tokens"

\* C19: every request of the OpenAI, OpenRouter and custom providers carries
\* exactly one token-limit field, named as the model family requires, with the
\* value config.maxTokens.
C19_TokenLimitField ==
  (request.sent /\ provider \in {"OpenAIProvider", "OpenRouterProvider", "CustomProvider"})
    => request.tokenLimit = {<<C19_RequiredField(config.model), config.maxTokens>>}

(***************************************************************************)
(* CommitWorkflow.execute (src/src/cli/CommitWorkflow.ts) with the prompts  *)
(* of UserInterface and commitChanges of src/src/gitUtils.ts.               *)
(***************************************************************************)
NotGitRepositoryError ==
  "Not a git repository. Please run this command from within a git repository."
NoStagedChangesError == "No staged changes found"
CancelledByValidationError == "Commit cancelled due to validation warnings"
EmptyCommitMessageError == "Commit message cannot be empty"
GitCommitError == "Failed to commit changes: Command failed: git commit"
ConfigLoadError == "Failed to load config: Unexpected token } in JSON at position 1"

Failure(e) == [success |-> FALSE, message |-> "", error |-> e]
\* A cancellation reported like an error.
Cancelled_AsError == [success |-> FALSE, message |-> "", error |-> "Cancelled by user"]

Cancelled == [success |-> FALSE, message |-> "Cancelled by user", error |-> ""]
Success == [success |-> TRUE, message |-> "Commit created successfully!", error |-> ""]

\* The calls a run makes, in the order it makes them.
Step(w, call) == [w EXCEPT !.trace = Append(@, call)]

\* execute returns result.
Finish(w, result) == [w EXCEPT !.pc = "done", !.result = result]

\* A getCommitMessage that never takes the message of the options.
HasMessage_Never(opts) == FALSE

\* if (options.message): the option is present and not the empty string.
HasMessage(opts) == opts.message.present /\ opts.message.text # ""

\* shouldConfirm(options)
shouldConfirm(opts) == opts.confirm # FALSE

\* commitChanges(message) up to the git command: a blank message is refused
\* before git is run.
commitChanges(w, message) ==
  IF trim(message) = ""
  THEN Finish([Step(w, "commitChanges") EXCEPT !.commitCalls = Append(@, message)],
              Failure(EmptyCommitMessageError))
  ELSE [Step(w, "commitChanges") EXCEPT !.commitCalls = Append(@, message), !.pc = "committing"]

\* The state after validateCommitMessage(message, config) returned or threw v.
Validated(w, message, v) ==
  [Step(w, "validateCommitMessage") EXCEPT
     !.commitMessage = message, !.validation = v, !.validated = Append(@, message)]

\* A validateAndCommit that refuses an invalid message without asking.
validateAndCommit_Blocking(w, message, cfg) ==
  Bind(validate(cfg.templates, cfg.commitStyle, message), LAMBDA v :
    IF ~v.ok THEN Finish(Validated(w, message, v), Failure(v.error))
    ELSE IF ~v.value.valid
    THEN Finish(Validated(w, message, v), Failure(CancelledByValidationError))
    ELSE commitChanges(Validated(w, message, v), message))

\* validateAndCommit(commitMessage, config) up to its first prompt or git
\* command: an invalid message has its errors shown by
\* confirmValidationWarnings, a valid one goes to commitChanges.
validateAndCommit(w, message, cfg) ==
  Bind(validate(cfg.templates, cfg.commitStyle, message), LAMBDA v :
    IF ~v.ok THEN Finish(Validated(w, message, v), Failure(v.error))
    ELSE IF ~v.value.valid
    THEN [Step(Validated(w, message, v), "confirmValidationWarnings") EXCEPT
            !.warnings = Append(@, v.value.errors), !.pc = "warning"]
    ELSE commitChanges(Validated(w, message, v), message))

\* After getCommitMessage: displayCommitMessage, then ask the user or go on to
\* validateAndCommit.
Proposed(w, message, opts, cfg) ==
  IF shouldConfirm(opts)
  THEN [Step(w, "promptUserAction") EXCEPT
          !.commitMessage = message, !.displayed = Append(@, message), !.pc = "asking"]
  ELSE validateAndCommit([w EXCEPT !.displayed = Append(@, message)], message, cfg)

\* Inputs of a run.
OptionMessages ==
  {Absent, Given(""), Given("feat: add parser"), Given("Update readme."), Given("   "),
   Given(FENCE \o "\nfix: quoted\n" \o FENCE)}
CommitOptions == [message : OptionMessages, confirm : BOOLEAN]
Repositories == [isGitRepo : BOOLEAN, stagedChanges : {"", "diff --git a/x b/x"}, accepts : BOOLEAN]
WorkflowConfigs ==
  {c \in [commitStyle : Styles, templates : Implementations, sanitizer : Sanitizers,
          autoCommit : BOOLEAN] :
     c.templates = "CommitMessageFormatter" => c.sanitizer = "markdown"}

\* What loadOrSetupConfig ends with: the stored configuration, the one the
\* first-time setup returns, or the error of a configuration that cannot be read.
ConfigLoads == {"loaded", "setup", "throws"}

\* What generateCommitMessage settles with.
GenerationOutcomes ==
  {Return("feat: add parser\n\n- add tests"), Return("Fix memory leak."), Return("   "),
   Throw("OpenAI API error: No response from OpenAI")}

\* What promptUserAction resolves with; an edited message is trimmed and has
\* at least three characters.
UserActions ==
  {[action |-> "commit", message |-> ""], [action |-> "cancel", message |-> ""],
   [action |-> "commit", message |-> "docs: edited by hand"],
   [action |-> "commit", message |-> "Edited By Hand."]}

WorkflowInit ==
  /\ options \in CommitOptions
  /\ repository \in Repositories
  /\ workflowConfig \in WorkflowConfigs
  /\ workflow = NotStarted("invoked")

\* getCommitMessage for a message the model returned: formatCommitMessage.
getCommitMessage(w, outcome, opts, cfg) ==
  IF ~outcome.ok THEN Finish(Step(w, "generateCommitMessage"), Failure(outcome.error))
  ELSE Bind(format(cfg.templates, cfg.sanitizer, cfg.commitStyle, Given(outcome.value)),
            LAMBDA f : IF ~f.ok THEN Finish(Step(w, "generateCommitMessage"), Failure(f.error))
                       ELSE Proposed(Step(w, "generateCommitMessage"), f.value, opts, cfg))

\* process.exit(code), or the end of the action handler (exit code 0).
Exit(w, code) == [w EXCEPT !.exit = [exited |-> TRUE, code |-> code]]

\* CommitCommand.execute: loadOrSetupConfig, then the workflow is started.
Invoke ==
  /\ workflow.pc = "invoked"
  /\ \E loaded \in ConfigLoads :
       workflow' = IF loaded = "throws"
                   THEN Exit([workflow EXCEPT !.pc = "failed", !.result = Failure(ConfigLoadError)], 1)
                   ELSE [workflow EXCEPT !.pc = "start"]
  /\ UNCHANGED <<options, repository, workflowConfig>>
  /\ UNCHANGED outsideWorkflow

\* execute(options, config) up to the first prompt or the git commit.
Execute ==
  /\ workflow.pc = "start"
  /\ IF ~repository.isGitRepo
     THEN workflow' = Finish(Step(workflow, "checkGitRepository"), Failure(NotGitRepositoryError))
     ELSE IF trim(repository.stagedChanges) = ""
     THEN workflow' = Finish(Step(Step(workflow, "checkGitRepository"), "getStagedChanges"),
                             Failure(NoStagedChangesError))
     ELSE IF HasMessage(options)
     THEN workflow' = Proposed(Step(Step(workflow, "checkGitRepository"), "getStagedChanges"),
                               options.message.text, options, workflowConfig)
     ELSE \E outcome \in GenerationOutcomes :
            workflow' = getCommitMessage(Step(Step(workflow, "checkGitRepository"), "getStagedChanges"),
                                         outcome, options, workflowConfig)
  /\ UNCHANGED <<options, repository, workflowConfig>>
  /\ UNCHANGED outsideWorkflow

\* promptUserAction resolves: cancel, accept, or accept with an edited message.
UserActs ==
  /\ workflow.pc = "asking"
  /\ \E userAction \in UserActions :
       workflow' =
         IF userAction.action = "cancel" THEN Finish(workflow, Cancelled)
         ELSE IF userAction.message # ""
         THEN validateAndCommit(Step(workflow, "editCommitMessage"), userAction.message,
                                workflowConfig)
         ELSE validateAndCommit(workflow, workflow.commitMessage, workflowConfig)
  /\ UNCHANGED <<options, repository, workflowConfig>>
  /\ UNCHANGED outsideWorkflow

\* confirmValidationWarnings resolves with the user's answer.
ConfirmValidationWarnings ==
  /\ workflow.pc = "warning"
  /\ \E shouldProceed \in BOOLEAN :
       workflow' =
         IF ~shouldProceed
         THEN Finish([workflow EXCEPT !.proceed = "no"], Failure(CancelledByValidationError))
         ELSE commitChanges([workflow EXCEPT !.proceed = "yes"], workflow.commitMessage)
  /\ UNCHANGED <<options, repository, workflowConfig>>
  /\ UNCHANGED outsideWorkflow

\* git commit ends: the commit exists, or commitChanges throws.
GitCommits ==
  /\ workflow.pc = "committing"
  /\ workflow' =
       IF repository.accepts
       THEN Finish([workflow EXCEPT !.commits = Append(@, workflow.commitMessage)], Success)
       ELSE Finish(workflow, Failure(GitCommitError))
  /\ UNCHANGED <<options, repository, workflowConfig>>
  /\ UNCHANGED outsideWorkflow

\* CommitCommand.execute after the workflow returned: an error is thrown to
\* handleError (exit 1), a cancellation exits with 0, success lets the action
\* handler return.
CommandEnds ==
  /\ workflow.pc = "done"
  /\ ~workflow.exit.exited
  /\ workflow' =
       IF ~workflow.result.success /\ workflow.result.error # "" THEN Exit(workflow, 1)
       ELSE Exit(workflow, 0)
  /\ UNCHANGED <<options, repository, workflowConfig>>
  /\ UNCHANGED outsideWorkflow

WorkflowNext ==
  \/ Invoke
  \/ Execute
  \/ UserActs
  \/ ConfirmValidationWarnings
  \/ GitCommits
  \/ CommandEnds

WorkflowStart == TemplateIdle /\ FactoryInit /\ ProviderIdle /\ WorkflowInit /\ ConfigIdle

WorkflowSpec == WorkflowStart /\ [][WorkflowNext]_vars

C20_Returned == workflow.validation.ok
C20_Invalid == C20_Returned /\ ~workflow.validation.value.valid
C20_Valid == C20_Returned /\ workflow.validation.value.valid
C20_Attempted == workflow.commitCalls = <<workflow.commitMessage>>
C20_Created == workflow.commits = <<workflow.commitMessage>>
C20_Done == workflow.pc = "done"

\* C20: validation is advisory.  When validateCommitMessage returns valid =
\* false its errors are shown once and the message goes to commitChanges iff
\* the user answers yes: declining leaves no commit and ends the run with the
\* error 'Commit cancelled due to validation warnings'.  When it returns valid
\* = true no warning is shown, no answer is asked and the message goes to
\* commitChanges.  Nothing is committed before validation, and whenever
\* commitChanges does not fail (the message is not blank and git accepts the
\* commit), the commit of an invalid message is created iff the user chose to
\* proceed and the commit of a valid message is created.
C20_Advisory ==
  /\ C20_Invalid
       => /\ workflow.warnings = <<workflow.validation.value.errors>>
          /\ workflow.validation.value.errors # <<>>
          /\ workflow.proceed = "unasked" <=> workflow.pc = "warning"
          /\ C20_Attempted <=> workflow.proceed = "yes"
          /\ workflow.proceed # "yes" => workflow.commitCalls = <<>> /\ workflow.commits = <<>>
          /\ workflow.proceed = "no"
               => C20_Done /\ workflow.result = Failure("Commit cancelled due to validation warnings")
          /\ (C20_Done /\ repository.accepts /\ trim(workflow.commitMessage) # "")
               => /\ C20_Created <=> workflow.proceed = "yes"
                  /\ workflow.result.success <=> workflow.proceed = "yes"
  /\ C20_Valid
       => /\ workflow.warnings = <<>>
          /\ workflow.proceed = "unasked"
          /\ C20_Attempted
          /\ (C20_Done /\ repository.accepts /\ trim(workflow.commitMessage) # "")
               => C20_Created /\ workflow.result.success
  /\ ~C20_Returned => workflow.commitCalls = <<>> /\ workflow.commits = <<>>
  /\ workflow.commits # <<>> => C20_Created /\ C20_Attempted

C20_Witness ==
  /\ C20_Done
  /\ C20_Invalid
  /\ workflow.proceed = "yes"
  /\ C20_Created
  /\ workflow.result.success

C21_Last == IF workflow.trace = <<>> THEN "" ELSE workflow.trace[Len(workflow.trace)]

\* The user picked Cancel: the run ended right after the action prompt.
C21_UserCancelled == workflow.pc = "done" /\ C21_Last = "promptUserAction"

\* The run ended with an error: it did not succeed and was not cancelled.
C21_EndedWithError ==
  workflow.pc = "failed" \/ (workflow.pc = "done" /\ ~workflow.result.success /\ ~C21_UserCancelled)

\* C21: once the commit command has exited, the exit code is 1 iff the run
\* ended with an error (no repository, nothing staged, provider or formatting
\* failure, commit failure) and 0 otherwise; after Cancel at the action prompt
\* there is no commit and the code is 0.
C21_ExitCodes ==
  workflow.exit.exited
    => /\ workflow.exit.code \in {0, 1}
       /\ workflow.exit.code = 1 <=> C21_EndedWithError
       /\ (workflow.pc = "done" /\ (~repository.isGitRepo \/ repository.stagedChanges = ""))
            => workflow.exit.code = 1
       /\ (workflow.pc = "done" /\ C21_Last = "generateCommitMessage") => workflow.exit.code = 1
       /\ (workflow.commitCalls # <<>> /\ workflow.commits = <<>>) => workflow.exit.code = 1
       /\ workflow.commits # <<>> => workflow.exit.code = 0
       /\ C21_UserCancelled
            => workflow.exit.code = 0 /\ workflow.commits = <<>> /\ workflow.commitCalls = <<>>

C21_Witness ==
  /\ workflow.exit.exited
  /\ C21_UserCancelled
  /\ workflow.exit.code = 0
  /\ workflow.commits = <<>>

C22_PromptCalls == {"promptUserAction", "editCommitMessage", "confirmValidationWarnings"}

\* C22: with --no-confirm the run issues no interactive prompt of any kind.
C22_NoPromptWithoutConfirm ==
  ~options.confirm => \A i \in DOMAIN workflow.trace : workflow.trace[i] \notin C22_PromptCalls

\* C23: with autoCommit = true the confirmation prompt is skipped, even
\* without --no-confirm; with autoCommit = false and without --no-confirm the
\* prompt is shown once the message is displayed.
C23_AutoCommitSkipsPrompt ==
  /\ workflowConfig.autoCommit
       => \A i \in DOMAIN workflow.trace : workflow.trace[i] # "promptUserAction"
  /\ (~workflowConfig.autoCommit /\ options.confirm /\ workflow.displayed # <<>>)
       => \E i \in DOMAIN workflow.trace : workflow.trace[i] = "promptUserAction"

\* The user edited the message at the action prompt.
C24_Edited == \E i \in DOMAIN workflow.trace : workflow.trace[i] = "editCommitMessage"

\* format(supplied text) for the configured style.
C24_Formatted ==
  format(workflowConfig.templates, workflowConfig.sanitizer, workflowConfig.commitStyle,
         options.message)

\* C24: a message supplied with -m goes through format before it is displayed
\* and committed: what is displayed is format(supplied text), and with no edit
\* that is what is passed to commitChanges.
C24_SuppliedMessageFormatted ==
  (options.message.present /\ options.message.text # "" /\ workflow.displayed # <<>>)
    => /\ C24_Formatted.ok
       /\ workflow.displayed = <<C24_Formatted.value>>
       /\ (workflow.commitCalls # <<>> /\ ~C24_Edited)
            => workflow.commitCalls = <<C24_Formatted.value>>

C28_Opt(cond, call) == IF cond THEN <<call>> ELSE <<>>

C28_Count(call) == Cardinality({i \in DOMAIN workflow.trace : workflow.trace[i] = call})

\* The calls of a run that reaches commitChanges, in their order; the provider
\* is called iff generated.
C28_Order(generated) ==
  /\ Len(workflow.commitCalls) <= 1
  /\ C28_Count("commitChanges") <= 1
  /\ C28_Count("generateCommitMessage") <= 1
  /\ workflow.commitCalls # <<>>
       => /\ repository.isGitRepo
          /\ trim(repository.stagedChanges) # ""
          /\ workflow.displayed # <<>>
          /\ workflow.validated = workflow.commitCalls
          /\ workflow.validation.ok
          /\ workflow.validation
               = validate(workflowConfig.templates, workflowConfig.commitStyle,
                          workflow.commitCalls[1])
          /\ C24_Edited => workflow.commitCalls[1] \in {"docs: edited by hand", "Edited By Hand."}
          /\ ~C24_Edited => workflow.commitCalls = workflow.displayed
          /\ workflow.trace
               = <<"checkGitRepository", "getStagedChanges">>
                   \o C28_Opt(generated, "generateCommitMessage")
                   \o C28_Opt(options.confirm, "promptUserAction")
                   \o C28_Opt(C24_Edited, "editCommitMessage")
                   \o <<"validateCommitMessage">>
                   \o C28_Opt(~workflow.validation.value.valid, "confirmValidationWarnings")
                   \o <<"commitChanges">>

C25_ActionList ==
  {"add", "remove", "update", "fix", "improve", "refactor", "implement", "create", "delete",
   "enhance"}
C25_StopList == {"from", "with", "that", "this", "when", "where", "they", "have", "been"}

C25_Has(words, w) == \E i \in DOMAIN words : words[i] = w

\* The first word of words that lies in the set, else dflt.
C25_FirstIn(words, set, dflt) ==
  IF \E i \in DOMAIN words : words[i] \in set
  THEN words[CHOOSE i \in DOMAIN words :
               words[i] \in set /\ \A j \in 1..(i - 1) : words[j] \notin set]
  ELSE dflt

C25_Context(words) ==
  IF \E t \in DOMAIN technicalTerms : C25_Has(words, technicalTerms[t])
  THEN technicalTerms[CHOOSE t \in DOMAIN technicalTerms :
                        /\ C25_Has(words, technicalTerms[t])
                        /\ \A u \in 1..(t - 1) : ~C25_Has(words, technicalTerms[u])]
  ELSE C25_FirstIn(words, {words[i] : i \in {j \in DOMAIN words :
                                               Len(words[j]) > 4 /\ words[j] \notin C25_StopList}},
                   "functionality")

\* The description the claim gives for the words of the prefix-stripped text.
C25_Description(words) ==
  IF C25_Has(words, "git") /\ C25_Has(words, "commit")
  THEN C25_FirstIn(words, C25_ActionList, "update") \o " git commit " \o
         (IF C25_Has(words, "body") THEN "body"
          ELSE IF C25_Has(words, "subject") THEN "subject" ELSE "handling")
  ELSE IF C25_Has(words, "format") \/ C25_Has(words, "template")
  THEN C25_FirstIn(words, C25_ActionList, "update") \o " " \o C25_Context(words) \o " " \o
         (IF C25_Has(words, "format") THEN "formatting" ELSE "template")
  ELSE C25_FirstIn(words, C25_ActionList, "update") \o " " \o C25_Context(words)

C25_Summarized ==
  /\ pc = "formatted"
  /\ impl = "CommitMessageProcessor"
  /\ style = "conventional"
  /\ formatted.ok
  /\ formatted.summarized

\* C25: the conventional createSummarySubject(longText) returns
\* '<classify(longText)>: <description>' with the action, the context and the
\* two special phrasings taken from the lower-cased words of the
\* prefix-stripped text; the description has two to four words.
C25_SummarySubject ==
  C25_Summarized
    => Bind(detectCommitType(formatted.firstLine), LAMBDA type :
       Bind(C25_Description(splitWords(toLowerCase(
              removeTypeFromSubject(formatted.firstLine, type)))), LAMBDA description :
         /\ formatted.subject = type \o ": " \o description
         /\ Len(splitWords(description)) \in 2..4))

C25_Witness ==
  /\ C25_Summarized
  /\ includes(formatted.firstLine, "Refactor the api format handling")
  /\ endsWith(formatted.subject, " format formatting")

C26_StopList ==
  {"from", "with", "that", "this", "when", "where", "they", "have", "been", "will", "were",
   "are"}

C26_Qualifies(word) == Len(word) > 3 /\ word \notin C26_StopList

\* The first up to 6 qualifying words of the text, joined by single spaces.
C26_KeyWords(text) ==
  Bind(SelectSeq(splitWords(toLowerCase(text)), C26_Qualifies), LAMBDA keyWords :
    join(SubSeq(keyWords, 1, IF Len(keyWords) < 6 THEN Len(keyWords) ELSE 6), " "))

C26_Summarized ==
  /\ pc = "formatted"
  /\ impl = "CommitMessageProcessor"
  /\ style = "freeform"
  /\ formatted.ok
  /\ formatted.summarized

\* C26: the freeform createSummarySubject(longText) returns the first up to 6
\* qualifying words, first letter capitalized; when no word qualifies it
\* returns the first action word of the text, or 'Update'; the subject is never
\* empty.
C26_FreeformSummary ==
  C26_Summarized
    => /\ formatted.subject # ""
       /\ formatted.subject
            = IF C26_KeyWords(formatted.firstLine) = ""
              THEN C25_FirstIn(splitWords(toLowerCase(formatted.firstLine)), C25_ActionList,
                               "Update")
              ELSE capitalizeFirst(C26_KeyWords(formatted.firstLine))

C27_BodyFormatted ==
  /\ pc = "formatted"
  /\ impl = "CommitMessageProcessor"
  /\ style = "conventional"
  /\ formatted.ok
  /\ formatted.formattedBody # ""

\* C27: in the conventional style no line of formatBody(body) starts with a
\* conventional type prefix '<type>[(scope)]:' and no line of it is empty.
C27_BodyLinesClean ==
  C27_BodyFormatted
    => \A i \in 1..Len(splitLines(formatted.formattedBody)) :
         /\ splitLines(formatted.formattedBody)[i] # ""
         /\ TypePrefixLength(splitLines(formatted.formattedBody)[i]) = 0

C30_Reformatted ==
  /\ pc = "reformatted"
  /\ impl = "CommitMessageProcessor"
  /\ style \in SupportedStyles

\* C30: format is idempotent in both styles: format applied to a message that
\* format returned succeeds and returns that message unchanged.
C30_FormatIdempotent ==
  C30_Reformatted => formatted.ok /\ formatted.value = raw.text

(***************************************************************************)
(* ConfigValidator (src/unnamed/part_006), ConfigManager                   *)
(* (src/src/config/ConfigManager.ts) and ConfigService.save / load         *)
(* (src/src/aiService.ts).  The file system is taken to work: readFile and *)
(* writeFile fail only for a file that does not exist.                     *)
(***************************************************************************)
requiredFields ==
  <<"commitStyle", "aiProvider", "model", "maxTokens", "includeContext", "autoCommit">>

validCommitStyles == <<"conventional", "freeform">>
validProviders == <<"openai", "ollama", "openrouter", "custom">>
MaxTokensLimit == 4000

\* The value converts to true.
Truthy(v) ==
  \/ v.kind = "string" /\ v.s # ""
  \/ v.kind = "number" /\ v.n # 0
  \/ v.kind = "boolean" /\ v.b

\* `${value}` of a template literal.
TemplateText(v) ==
  IF v.kind = "string" THEN v.s
  ELSE IF v.kind = "number" THEN ToString(v.n)
  ELSE IF v.kind = "boolean" THEN (IF v.b THEN "true" ELSE "false")
  ELSE v.kind

validateApiKey(apiKey) == apiKey.kind = "string" /\ Len(trim(apiKey.s)) > 0

SchemeChars == LowerSet \cup UpperSet \cup DigitSet \cup {"+", "-", "."}
SpecialSchemes == {"http", "https", "ws", "wss", "ftp"}

\* new URL(url) does not throw: url has a scheme, and a host when the scheme
\* is one of the special ones.
validateUrl(url) ==
  /\ url.kind = "string"
  /\ Bind(IndexOfFrom(url.s, ":", 1), LAMBDA colon :
       /\ colon > 1
       /\ CharAt(url.s, 1) \in LowerSet \cup UpperSet
       /\ \A i \in 2..(colon - 1) : CharAt(url.s, i) \in SchemeChars
       /\ toLowerCase(Take(url.s, colon - 1)) \in SpecialSchemes
            => Bind(Drop(url.s, colon), LAMBDA rest :
                 \E i \in 1..Len(rest) :
                   /\ CharAt(rest, i) \notin {"/", BACKSLASH}
                   /\ CharAt(rest, i) \notin Whitespace \cup {":", "?", "#"}
                   /\ \A j \in 1..(i - 1) : CharAt(rest, j) \in {"/", BACKSLASH}))

validateRequiredFields(cfg) ==
  MapSeq(SelectSeq(requiredFields, LAMBDA field : cfg[field] \in {Undefined, Null}),
         LAMBDA field : "Missing required field: " \o field)

validateCommitStyle(commitStyle) ==
  IF Truthy(commitStyle) /\ ~Contains(MapSeq(validCommitStyles, Str), commitStyle)
  THEN <<"Invalid commit style: " \o TemplateText(commitStyle) \o ". Must be one of: "
           \o join(validCommitStyles, ", ")>>
  ELSE <<>>

validateAIProvider(aiProvider) ==
  IF Truthy(aiProvider) /\ ~Contains(MapSeq(validProviders, Str), aiProvider)
  THEN <<"Invalid AI provider: " \o TemplateText(aiProvider) \o ". Must be one of: "
           \o join(validProviders, ", ")>>
  ELSE <<>>

validateModel(model) ==
  IF Truthy(model) /\ (model.kind # "string" \/ Len(trim(model.s)) = 0)
  THEN <<"Model must be a non-empty string">>
  ELSE <<>>

\* typeof NaN is 'number', and NaN <= 0 and NaN > 4000 are both false.
validateMaxTokens(maxTokens) ==
  IF /\ maxTokens # Undefined
     /\ \/ maxTokens.kind \notin {"number", "NaN"}
        \/ maxTokens.kind = "number" /\ (maxTokens.n <= 0 \/ maxTokens.n > MaxTokensLimit)
  THEN <<"Max tokens must be a positive number between 1 and 4000">>
  ELSE <<>>

validateProviderSpecificFields(cfg) ==
  IF cfg.aiProvider \in {Str("openai"), Str("openrouter")}
  THEN IF ~Truthy(cfg.apiKey) \/ ~validateApiKey(cfg.apiKey)
       THEN <<cfg.aiProvider.s \o " requires a valid API key">>
       ELSE <<>>
  ELSE IF cfg.aiProvider = Str("ollama")
  THEN IF ~Truthy(cfg.apiUrl) \/ ~validateUrl(cfg.apiUrl)
       THEN <<"Ollama requires a valid API URL">>
       ELSE <<>>
  ELSE IF cfg.aiProvider = Str("custom")
  THEN IF ~Truthy(cfg.apiUrl) \/ ~validateUrl(cfg.apiUrl)
       THEN <<"Custom provider requires a valid API URL">>
       ELSE <<>>
  ELSE <<>>

ConfigValidator_validate(cfg) ==
  Bind(validateRequiredFields(cfg) \o validateCommitStyle(cfg.commitStyle)
         \o validateAIProvider(cfg.aiProvider) \o validateModel(cfg.model)
         \o validateMaxTokens(cfg.maxTokens) \o validateProviderSpecificFields(cfg),
       LAMBDA errors : [valid |-> errors = <<>>, errors |-> errors])

\* JSON.parse(JSON.stringify(config)): a key whose value is undefined is left
\* out (and reads as undefined), NaN is written as null.
JSONStringify(cfg) == [f \in ConfigFields |-> IF cfg[f] = NaN THEN Null ELSE cfg[f]]

defaultConfig ==
  [commitStyle |-> Str("conventional"), aiProvider |-> Str("openrouter"),
   apiKey |-> Undefined, apiUrl |-> Undefined, model |-> Str("openai/gpt-4o-mini"),
   maxTokens |-> Num(150), includeContext |-> Bool(TRUE), autoCommit |-> Bool(FALSE)]

\* { ...defaultConfig, ...config }: every key the parsed object has wins.
mergeWithDefaults(data) ==
  [f \in ConfigFields |-> IF data[f] = Undefined THEN defaultConfig[f] ELSE data[f]]

ConfigManager_load(file) ==
  IF file.exists
  THEN [ok |-> TRUE, error |-> "", isNull |-> FALSE, value |-> mergeWithDefaults(file.data)]
  ELSE [ok |-> TRUE, error |-> "", isNull |-> TRUE, value |-> EmptyObject]

ConfigManager_save(cfg) == [exists |-> TRUE, data |-> JSONStringify(cfg)]

InvalidConfigurationError(errors) == "Invalid configuration: " \o join(errors, ", ")

\* Inputs of save: each field absent, in range and out of range.
ConfigInputs ==
  [commitStyle : {Undefined, Str(""), Str("conventional"), Str("emoji")},
   aiProvider : {Undefined, Str("openai"), Str("openrouter"), Str("ollama"), Str("custom"),
                 Str("azure")},
   apiKey : {Undefined, Str("  "), Str("sk-1")},
   apiUrl : {Undefined, Str("localhost"), Str("http://localhost:11434")},
   model : {Str(""), Str("gpt-4o-mini")},
   maxTokens : {Undefined, Null, NaN, Num(0), Num(1), Num(MaxTokensLimit),
                Num(MaxTokensLimit + 1)},
   includeContext : {Undefined, Bool(TRUE)},
   autoCommit : {Null, Bool(FALSE)}]

\* The file before the call: none yet, or the one an earlier setup wrote.
InitialFiles ==
  {NoFile,
   ConfigManager_save([defaultConfig EXCEPT !.apiKey = Str("sk-0")])}

ConfigInit ==
  /\ configFile \in InitialFiles
  /\ saveCall \in {[pc |-> "ready", config |-> c, before |-> configFile] : c \in ConfigInputs}
  /\ saveResult = NoSaveResult
  /\ loadResult = NoLoadResult

\* ConfigService.save(config)
Save ==
  /\ saveCall.pc = "ready"
  /\ \E checked \in {ConfigValidator_validate(saveCall.config)} :
       IF ~checked.valid
       THEN /\ saveResult' = [ok |-> FALSE, error |-> InvalidConfigurationError(checked.errors)]
            /\ UNCHANGED configFile
       ELSE /\ configFile' = ConfigManager_save(saveCall.config)
            /\ saveResult' = [ok |-> TRUE, error |-> ""]
  /\ saveCall' = [saveCall EXCEPT !.pc = "saved"]
  /\ UNCHANGED loadResult
  /\ UNCHANGED outsideConfig

\* ConfigService.load() after the save
Load ==
  /\ saveCall.pc = "saved"
  /\ loadResult' = ConfigManager_load(configFile)
  /\ saveCall' = [saveCall EXCEPT !.pc = "loaded"]
  /\ UNCHANGED <<configFile, saveResult>>
  /\ UNCHANGED outsideConfig

ConfigNext ==
  \/ Save
  \/ Load

ConfigStart == TemplateIdle /\ FactoryInit /\ ProviderIdle /\ WorkflowIdle /\ ConfigInit

ConfigSpec == ConfigStart /\ [][ConfigNext]_vars

C29_RequiredFields ==
  {"commitStyle", "aiProvider", "model", "maxTokens", "includeContext", "autoCommit"}

C29_Missing(v) == v \in {Undefined, Null} \/ (v.kind = "string" /\ trim(v.s) = "")

\* The configuration has one of the defects the validator is to report.
C29_Invalid(cfg) ==
  \/ \E f \in C29_RequiredFields : cfg[f] \in {Undefined, Null}
  \/ cfg.commitStyle \notin {Str("conventional"), Str("freeform")}
  \/ cfg.aiProvider \notin {Str("openai"), Str("ollama"), Str("openrouter"), Str("custom")}
  \/ ~(cfg.maxTokens.kind = "number" /\ cfg.maxTokens.n \in 1..4000)
  \/ cfg.aiProvider \in {Str("openai"), Str("openrouter")} /\ C29_Missing(cfg.apiKey)
  \/ /\ cfg.aiProvider \in {Str("ollama"), Str("custom")}
     /\ (C29_Missing(cfg.apiUrl) \/ ~validateUrl(cfg.apiUrl))

C29_Saved == saveCall.pc \in {"saved", "loaded"}

\* C29: save of a configuration with a defect (missing required field, style
\* or provider outside the allowed sets, maxTokens outside 1..4000, missing API
\* key for openai/openrouter, missing or malformed API URL for ollama/custom)
\* fails and leaves the file as it was; save of any other configuration
\* writes exactly that configuration, and the load that follows returns it.
C29_SaveGuarded ==
  C29_Saved
    => IF C29_Invalid(saveCall.config)
       THEN ~saveResult.ok /\ configFile = saveCall.before
       ELSE /\ saveResult.ok
            /\ configFile = [exists |-> TRUE, data |-> saveCall.config]
            /\ saveCall.pc = "loaded"
                 => loadResult.ok /\ ~loadResult.isNull /\ loadResult.value = saveCall.config

====
